---- MODULE Spec2Model ----
(***************************************************************************)
(* State-machine model of the acquisition core of AcquisitionSystem:       *)
(*   src/src/core/ring_buffer.py          FrameRingBuffer                  *)
(*   src/src/core/processing_pipeline.py  ProcessingPipeline               *)
(*   src/src/core/recording_service.py    RecordingService                 *)
(* Optional values (Python None / a value) are sequences of length 0 / 1.  *)
(***************************************************************************)
EXTENDS Integers, Sequences, FiniteSets, TLC

\* ------------------------------------------------------------------ bounds
\* FrameRingBuffer specification
MaxCap == 3
MaxFN == 2
MaxAdds == 5
\* ProcessingPipeline specifications
BufCap == 2        \* buffer_size given to ProcessingPipeline(...)
MaxFrames == 11    \* frames the source returns in all
FewFrames == 3     \* the same, where the hand-off queue need not fill
OverlapFrames == 1 \* the same, where two sessions' threads run side by side
RaceFrames == 2    \* the same, where recordings start and stop meanwhile
MaxStarts == 2     \* start() calls that launch worker threads
MaxFaults == 1     \* process() calls that raise
MaxCloses == 2     \* close() calls after which start() no longer fails
MaxWrites == 2     \* frames cv2.imwrite accepts in one recording session
\* PlaybackController specifications
MaxPlayThreads == 2  \* drive-loop threads play() creates
MaxTotal == 2        \* largest total frame count given to set_total_frames
MaxPos == 2          \* largest current frame when the total is not known
CallsMod == 3        \* callback invocations are counted modulo CallsMod

\* ------------------------------------------------------ program constants
QueueMaxSize == 10   \* Queue(maxsize=10)

\* ------------------------------------------------------------- option type
None == <<>>
Some(x) == <<x>>

Min2(a, b) == IF a <= b THEN a ELSE b

\* ---------------------------------------------------------------- FrameData
\* models.py FrameData: the pixel payload is an opaque identity, the
\* timestamp (wall clock) is left out. id is the identity of the object: the
\* constructor call that made it, which no other call shares because each
\* payload is wrapped once with each source_info.
FrameData(frame, frame_number, source_info) ==
  [frame |-> frame, frame_number |-> frame_number, source_info |-> source_info,
   id |-> <<"FrameData", frame, source_info>>]

\* FrameData.copy(), lines 18-25: a new object with the same fields
copy(frame_data) == [frame_data EXCEPT !.id = <<"copy", @>>]

\* ---------------------------------------------------------- FrameRingBuffer
\* deque(maxlen=capacity): the empty buffer
RB_init == <<>>

\* A list that grows without bound (no maxlen).
add_noevict(buffer, capacity, frame_data) == Append(buffer, frame_data)

\* add(): deque.append on a deque(maxlen=capacity) discards from the left
\* when the deque is full.
add(buffer, capacity, frame_data) ==
  IF capacity = 0 THEN buffer
  ELSE IF Len(buffer) >= capacity THEN Append(Tail(buffer), frame_data)
  ELSE Append(buffer, frame_data)

\* get(index): index relative to the oldest frame
get(buffer, index) ==
  IF 0 <= index /\ index < Len(buffer) THEN Some(buffer[index + 1]) ELSE None

get_latest(buffer) ==
  IF Len(buffer) > 0 THEN Some(buffer[Len(buffer)]) ELSE None

\* The scan of get_by_frame_number from position i down to 1
\* (for frame_data in reversed(self._buffer)).
RECURSIVE scan_reversed(_, _, _)
scan_reversed(buffer, i, frame_number) ==
  IF i = 0 THEN None
  ELSE IF buffer[i].frame_number = frame_number THEN Some(buffer[i])
  ELSE scan_reversed(buffer, i - 1, frame_number)

\* A scan oldest-first.
RECURSIVE scan_forward(_, _, _)
scan_forward(buffer, i, frame_number) ==
  IF i > Len(buffer) THEN None
  ELSE IF buffer[i].frame_number = frame_number THEN Some(buffer[i])
  ELSE scan_forward(buffer, i + 1, frame_number)

get_by_frame_number_oldest(buffer, frame_number) ==
  scan_forward(buffer, 1, frame_number)

get_by_frame_number(buffer, frame_number) ==
  scan_reversed(buffer, Len(buffer), frame_number)

get_size(buffer) == Len(buffer)

clear(buffer) == <<>>

get_all_frame_numbers(buffer) ==
  [i \in 1..Len(buffer) |-> buffer[i].frame_number]

\* get_frame_range(): the numbers of the first and of the last entry
get_frame_range(buffer) ==
  IF Len(buffer) = 0 THEN <<None, None>>
  ELSE <<Some(buffer[1].frame_number), Some(buffer[Len(buffer)].frame_number)>>

\* ------------------------------------------------------------------- state
VARIABLES
  rb_capacity,   \* FrameRingBuffer.capacity
  rb_buffer,     \* FrameRingBuffer._buffer, oldest first
  rb_added       \* history: the frames added since the most recent clear()

rbvars == <<rb_capacity, rb_buffer, rb_added>>

VARIABLES
  is_running,          \* ProcessingPipeline.is_running
  algorithm,           \* ProcessingPipeline.algorithm (its name)
  source_buffer,       \* ProcessingPipeline.source_buffer._buffer
  processed_buffer,    \* ProcessingPipeline.processed_buffer._buffer
  processing_queue,    \* ProcessingPipeline.processing_queue
  acquisition_thread,  \* 0 (None) or the index of the Thread object
  processing_thread,   \* 0 (None) or the index of the Thread object
  frames_acquired,     \* ProcessingPipeline.frames_acquired
  frames_processed,    \* ProcessingPipeline.frames_processed
  acq,                 \* acq[t]: position and locals of acquisition thread t
  proc,                \* proc[t]: position and locals of processing thread t
  client,              \* position of the owner's thread inside stop(),
                       \* start_recording() or stop_recording()
  source,              \* the data source: state, frames read, close() calls
  rec,                 \* RecordingService: is_recording, folder, frame_counter
  faults,              \* process() calls that raised so far
  start_call,          \* history: the most recent start() call, its return
                       \* value and the source methods it called
  disk,                \* the directories under RecordingService.output_folder
                       \* and the indices of the frame files in each
  rec_call,            \* history: the most recent direct call of the
                       \* recording service, its argument and return value
  proc_log,            \* history: how many frames were appended to the
                       \* processed buffer, and how many cycles reached
                       \* the on_new_frame call
  acq_log              \* history: the frames appended to the source buffer,
                       \* each with the acquisition thread that appended it
                       \* and whether the queue was full at its put

pvars == <<is_running, algorithm, source_buffer, processed_buffer,
           processing_queue, acquisition_thread, processing_thread,
           frames_acquired, frames_processed, acq, proc, client,
           source, rec, faults, acq_log, start_call, disk, rec_call, proc_log>>

VARIABLES
  pb_fps,            \* PlaybackController._fps
  pb_state,          \* PlaybackController._state
  pb_current_frame,  \* PlaybackController._current_frame
  pb_loop_enabled,   \* PlaybackController._loop_enabled
  pb_total_frames,   \* PlaybackController._total_frames (None or a number)
  pb_lock,           \* PlaybackController._lock: "free" or its holder
  pb_play_thread,    \* PlaybackController._play_thread: 0 (None) or a thread
  pb_stop_event,     \* PlaybackController._stop_event
  pb_callback_set,   \* whether PlaybackController._frame_callback is set
  pb_loop,           \* pb_loop[t]: position and locals of drive-loop thread t
  pb_caller,         \* the caller of the controller: position and last call
  pb_calls           \* history: the most recent invocation of the frame
                     \* callback and the number of invocations so far

pbvars == <<pb_fps, pb_state, pb_current_frame, pb_loop_enabled,
            pb_total_frames, pb_lock, pb_play_thread, pb_stop_event,
            pb_callback_set, pb_loop, pb_caller, pb_calls>>

vars == <<rbvars, pvars, pbvars>>

\* ------------------------------------------------------ ProcessingPipeline
Threads == 1..MaxStarts

\* The transforms the pipeline can be given (IDetectionAlgorithm.get_name()).
Algorithms == {"A", "B"}

\* Names a recording session can be given.
RecNames == {"rec1"}

\* datetime.now().strftime("recording_%Y%m%d_%H%M%S") (line 38): the name of
\* a session started without a name, for calls made within one second.
DefaultName == "recording_now"

\* All session directories: named by the caller or by the clock.
AllNames == RecNames \cup {DefaultName}

\* A worker thread that start() has not created.
AcqUnstarted == [pc |-> "unstarted", frame |-> None, frame_data |-> None, tmp |-> 0]
\* (alg_at_get is history: the transform that was current when frame_data
\* was taken from the queue)
ProcUnstarted ==
  [pc |-> "unstarted", frame_data |-> None, processed_frame |-> None,
   processed_data |-> None, tmp |-> 0, alg_at_get |-> None,
   filename |-> None, filepath |-> None]

\* Worker threads created so far.
Launched == Cardinality({t \in Threads : acq[t].pc # "unstarted"})
Alive(th) == th.pc \notin {"unstarted", "done"}

\* No worker thread is running.
WorkersDone ==
  \A t \in Threads : ~Alive(acq[t]) /\ ~Alive(proc[t])

\* IDetectionAlgorithm.process(frame): the output is the input under the
\* named transform.
process(alg, frame) == [alg |-> alg, input |-> frame]

\* ProcessingPipeline.__init__ (with RecordingService.__init__ and a source
\* that is not open and will return the given number of frames)
PipelineInitFrames(frames) ==
  /\ is_running = FALSE
  /\ algorithm = "A"
  /\ source_buffer = RB_init
  /\ processed_buffer = RB_init
  /\ processing_queue = <<>>
  /\ acquisition_thread = 0
  /\ processing_thread = 0
  /\ frames_acquired = 0
  /\ frames_processed = 0
  /\ acq = [t \in Threads |-> AcqUnstarted]
  /\ proc = [t \in Threads |-> ProcUnstarted]
  /\ client = "idle"
  /\ source = [state |-> "closed", reads |-> 0, closes |-> 0, frames |-> frames]
  /\ rec = [is_recording |-> FALSE, current_recording_folder |-> None,
            frame_counter |-> 0]
  /\ faults = 0
  /\ acq_log = <<>>
  /\ start_call = None
  /\ disk = [n \in AllNames |-> None]
  /\ rec_call = [op |-> "none", arg |-> None, ret |-> None, flip |-> FALSE]
  /\ proc_log = [appended |-> 0, callbacks |-> 0]

PipelineInit == PipelineInitFrames(MaxFrames)

\* IDataSource.close()
source_close(src) == [src EXCEPT !.state = "closed", !.closes = @ + 1]

\* ---- start()
\* A call of a method of the data source made by start() and whether it
\* reported success; start() makes its calls inside "with self.lock"
\* (lines 62-83).
SourceCall(method, ok) == [method |-> method, ok |-> ok, under_lock |-> TRUE]

\* What a start() call did: the value it returned and the calls it made to
\* the data source, in order; parity is the number of start() calls so far,
\* modulo 2.
start_returns(ret, calls) ==
  Some([ret |-> ret, calls |-> calls,
        parity |-> IF start_call = None THEN 1 ELSE 1 - start_call[1].parity])

\* A start() that does not look at is_running.
StartRunningAgain ==
  /\ client = "idle"
  /\ is_running
  /\ Launched < MaxStarts
  /\ LET t == Launched + 1 IN
       /\ source' = [source EXCEPT !.state = "started"]
       /\ acquisition_thread' = t
       /\ processing_thread' = t
       /\ acq' = [acq EXCEPT ![t].pc = "while"]
       /\ proc' = [proc EXCEPT ![t].pc = "while"]
  /\ start_call' = start_returns(TRUE, <<SourceCall("open", TRUE),
                                         SourceCall("start", TRUE)>>)
  /\ UNCHANGED <<rbvars, pbvars, proc_log, disk, rec_call, is_running, algorithm, source_buffer, processed_buffer,
                 processing_queue, frames_acquired, frames_processed, client,
                 rec, faults, acq_log>>

\* start() while is_running: returns True at once.
StartRunning ==
  /\ client = "idle"
  /\ is_running
  /\ start_call' = start_returns(TRUE, <<>>)
  /\ UNCHANGED <<rbvars, pbvars, proc_log, disk, rec_call, is_running, algorithm, source_buffer, processed_buffer,
                 processing_queue, acquisition_thread, processing_thread,
                 frames_acquired, frames_processed, acq, proc, client,
                 source, rec, faults, acq_log>>

\* start(): data_source.open() returns False.
StartOpenFails ==
  /\ client = "idle"
  /\ ~is_running
  /\ UNCHANGED source
  /\ start_call' = start_returns(FALSE, <<SourceCall("open", FALSE)>>)
  /\ UNCHANGED <<rbvars, pbvars, proc_log, disk, rec_call, is_running, algorithm, source_buffer, processed_buffer,
                 processing_queue, acquisition_thread, processing_thread,
                 frames_acquired, frames_processed, acq, proc, client,
                 rec, faults, acq_log>>

\* A start() that leaves the source open when data_source.start() fails.
StartStartFailsLeavesOpen ==
  /\ client = "idle"
  /\ ~is_running
  /\ source' = [source EXCEPT !.state = "open"]
  /\ start_call' = start_returns(FALSE, <<SourceCall("open", TRUE),
                                          SourceCall("start", FALSE)>>)
  /\ UNCHANGED <<rbvars, pbvars, proc_log, disk, rec_call, is_running, algorithm, source_buffer, processed_buffer,
                 processing_queue, acquisition_thread, processing_thread,
                 frames_acquired, frames_processed, acq, proc, client,
                 rec, faults, acq_log>>

\* start(): open() succeeds, data_source.start() returns False, the source
\* is closed again.
StartStartFails ==
  /\ client = "idle"
  /\ ~is_running
  /\ source.closes < MaxCloses
  /\ source' = source_close(source)
  /\ start_call' = start_returns(FALSE, <<SourceCall("open", TRUE),
                                          SourceCall("start", FALSE),
                                          SourceCall("close", TRUE)>>)
  /\ UNCHANGED <<rbvars, pbvars, proc_log, disk, rec_call, is_running, algorithm, source_buffer, processed_buffer,
                 processing_queue, acquisition_thread, processing_thread,
                 frames_acquired, frames_processed, acq, proc, client,
                 rec, faults, acq_log>>

\* start(): the source opens and starts, is_running is set and the two
\* worker threads are created and started.
StartOk ==
  /\ client = "idle"
  /\ ~is_running
  /\ Launched < MaxStarts
  /\ LET t == Launched + 1 IN
       /\ source' = [source EXCEPT !.state = "started"]
       /\ is_running' = TRUE
       /\ acquisition_thread' = t
       /\ processing_thread' = t
       /\ acq' = [acq EXCEPT ![t].pc = "while"]
       /\ proc' = [proc EXCEPT ![t].pc = "while"]
  /\ start_call' = start_returns(TRUE, <<SourceCall("open", TRUE),
                                         SourceCall("start", TRUE)>>)
  /\ UNCHANGED <<rbvars, pbvars, proc_log, disk, rec_call, algorithm, source_buffer, processed_buffer, processing_queue,
                 frames_acquired, frames_processed, client, rec, faults,
                 acq_log>>

start == StartRunning \/ StartOpenFails \/ StartStartFails \/ StartOk

\* ---- stop()
\* A stop() that does not look at is_running.
StopEnterUnguarded ==
  /\ client = "idle"
  /\ is_running' = FALSE
  /\ client' = "stop_join_acq"
  /\ UNCHANGED <<rbvars, pbvars, proc_log, disk, rec_call, start_call, algorithm, source_buffer, processed_buffer, processing_queue,
                 acquisition_thread, processing_thread, frames_acquired,
                 frames_processed, acq, proc, source, rec, faults, acq_log>>

\* stop(), lines 87-91: under the lock, return if not running, else clear
\* is_running.
StopEnter ==
  /\ client = "idle"
  /\ IF ~is_running
       THEN UNCHANGED <<is_running, client>>
       ELSE /\ is_running' = FALSE
            /\ client' = "stop_join_acq"
  /\ UNCHANGED <<rbvars, pbvars, proc_log, disk, rec_call, start_call, algorithm, source_buffer, processed_buffer, processing_queue,
                 acquisition_thread, processing_thread, frames_acquired,
                 frames_processed, acq, proc, source, rec, faults, acq_log>>

\* stop(), lines 94-95: join the acquisition thread; the join returns when
\* the thread has ended.
StopJoinAcquisition ==
  /\ client = "stop_join_acq"
  /\ acquisition_thread # 0 => acq[acquisition_thread].pc = "done"
  /\ client' = "stop_join_proc"
  /\ UNCHANGED <<rbvars, pbvars, proc_log, disk, rec_call, start_call, is_running, algorithm, source_buffer, processed_buffer,
                 processing_queue, acquisition_thread, processing_thread,
                 frames_acquired, frames_processed, acq, proc, source,
                 rec, faults, acq_log>>

\* stop(), lines 94-95: join(timeout=2.0) returns after the timeout while the
\* acquisition thread is still running.
StopJoinAcquisitionTimeout ==
  /\ client = "stop_join_acq"
  /\ acquisition_thread # 0
  /\ Alive(acq[acquisition_thread])
  /\ client' = "stop_join_proc"
  /\ UNCHANGED <<rbvars, pbvars, proc_log, disk, rec_call, start_call, is_running, algorithm, source_buffer, processed_buffer,
                 processing_queue, acquisition_thread, processing_thread,
                 frames_acquired, frames_processed, acq, proc, source,
                 rec, faults, acq_log>>

\* stop(), lines 96-97: join the processing thread.
StopJoinProcessing ==
  /\ client = "stop_join_proc"
  /\ processing_thread # 0 => proc[processing_thread].pc = "done"
  /\ client' = "stop_close"
  /\ UNCHANGED <<rbvars, pbvars, proc_log, disk, rec_call, start_call, is_running, algorithm, source_buffer, processed_buffer,
                 processing_queue, acquisition_thread, processing_thread,
                 frames_acquired, frames_processed, acq, proc, source,
                 rec, faults, acq_log>>

\* stop(), lines 96-97: join(timeout=2.0) returns after the timeout while the
\* processing thread is still running.
StopJoinProcessingTimeout ==
  /\ client = "stop_join_proc"
  /\ processing_thread # 0
  /\ Alive(proc[processing_thread])
  /\ client' = "stop_close"
  /\ UNCHANGED <<rbvars, pbvars, proc_log, disk, rec_call, start_call, is_running, algorithm, source_buffer, processed_buffer,
                 processing_queue, acquisition_thread, processing_thread,
                 frames_acquired, frames_processed, acq, proc, source,
                 rec, faults, acq_log>>

\* stop(), line 100: data_source.close()
StopClose ==
  /\ client = "stop_close"
  /\ source' = source_close(source)
  /\ client' = "stop_recording"
  /\ UNCHANGED <<rbvars, pbvars, proc_log, disk, rec_call, start_call, is_running, algorithm, source_buffer, processed_buffer,
                 processing_queue, acquisition_thread, processing_thread,
                 frames_acquired, frames_processed, acq, proc, rec,
                 faults, acq_log>>

\* Everything of the pipeline but the owner's position, the recording
\* service, its directories and the record of its calls.
pipeline_rest ==
  <<is_running, algorithm, source_buffer, processed_buffer, processing_queue,
    acquisition_thread, processing_thread, frames_acquired, frames_processed,
    acq, proc, source, faults, acq_log, start_call, proc_log>>

\* stop(), lines 103-104, and stop_recording() lines 84-88: when no recording
\* is active stop() returns; else stop_recording() is entered (the values it
\* reads for its result are not used by stop()).
StopRecordingIfActive ==
  /\ client = "stop_recording"
  /\ client' = IF rec.is_recording THEN "stop_end_rec_flag" ELSE "idle"
  /\ UNCHANGED <<rbvars, pbvars, pipeline_rest, rec, disk, rec_call>>

\* stop_recording(), line 90: self.is_recording = False
stop_recording_flag(from, to) ==
  /\ client = from
  /\ rec' = [rec EXCEPT !.is_recording = FALSE]
  /\ client' = to
  /\ UNCHANGED <<rbvars, pbvars, pipeline_rest, disk, rec_call>>

\* stop_recording(), line 91: self.current_recording_folder = None
stop_recording_folder(from, to) ==
  /\ client = from
  /\ rec' = [rec EXCEPT !.current_recording_folder = None]
  /\ client' = to
  /\ UNCHANGED <<rbvars, pbvars, pipeline_rest, disk, rec_call>>

\* stop_recording(), lines 92-94: self.frame_counter = 0; return
stop_recording_counter(from, to) ==
  /\ client = from
  /\ rec' = [rec EXCEPT !.frame_counter = 0]
  /\ client' = to
  /\ UNCHANGED <<rbvars, pbvars, pipeline_rest, disk, rec_call>>

\* The stop_recording() that stop() calls at line 104; stop() returns with it.
StopEndRecordingFlag == stop_recording_flag("stop_end_rec_flag", "stop_end_rec_folder")
StopEndRecordingFolder == stop_recording_folder("stop_end_rec_folder", "stop_end_rec_counter")
StopEndRecordingCounter == stop_recording_counter("stop_end_rec_counter", "idle")

stop ==
  \/ StopEnter
  \/ StopJoinAcquisition
  \/ StopJoinAcquisitionTimeout
  \/ StopJoinProcessing
  \/ StopJoinProcessingTimeout
  \/ StopClose
  \/ StopRecordingIfActive
  \/ StopEndRecordingFlag
  \/ StopEndRecordingFolder
  \/ StopEndRecordingCounter

\* ---- the recording service, called by the owner's thread. It has no lock:
\* each statement that reads or writes what record_frame() of a processing
\* thread reads or writes is a step of its own.
\* line 42: current_recording_folder.mkdir(parents=True, exist_ok=True)
mkdir(d, folder) ==
  IF d[folder] = None THEN [d EXCEPT ![folder] = Some({})] ELSE d

\* The call's return value is known (history: the name of the method, its
\* argument and the value it returns).
RecReturns(op, arg, ret) ==
  rec_call' = [op |-> op, arg |-> arg, ret |-> ret, flip |-> ~rec_call.flip]

\* A test of line 33 that never finds a recording.
already_recording_never(r) == FALSE

\* start_recording(), line 33: if self.is_recording
already_recording(r) == r.is_recording

\* start_recording(name), lines 33-41, name being None or Some(a name):
\* during a recording the call returns the folder of that recording; else
\* the folder is set (line 41), which is the value the call will return.
\* observed: the return value is recorded.
start_recording_enter(name, observed) ==
  /\ client = "idle"
  /\ IF already_recording(rec)
       THEN /\ UNCHANGED <<rec, client>>
            /\ IF observed
                 THEN RecReturns("start_recording", name,
                                 rec.current_recording_folder[1])
                 ELSE UNCHANGED rec_call
       ELSE LET folder == IF name = None THEN DefaultName ELSE name[1] IN
              /\ rec' = [rec EXCEPT !.current_recording_folder = Some(folder)]
              /\ client' = "start_rec_mkdir"
              /\ IF observed
                   THEN RecReturns("start_recording", name, folder)
                   ELSE UNCHANGED rec_call
  /\ UNCHANGED <<rbvars, pbvars, pipeline_rest, disk>>

\* start_recording(name), called by the owner of the pipeline
StartRecordingBegin ==
  \E name \in RecNames : start_recording_enter(Some(name), FALSE)

\* line 42: the directory of the recording is made unless it exists
StartRecordingMkdir ==
  /\ client = "start_rec_mkdir"
  /\ disk' = mkdir(disk, rec.current_recording_folder[1])
  /\ client' = "start_rec_counter"
  /\ UNCHANGED <<rbvars, pbvars, pipeline_rest, rec, rec_call>>

\* line 44: self.frame_counter = 0
StartRecordingCounter ==
  /\ client = "start_rec_counter"
  /\ rec' = [rec EXCEPT !.frame_counter = 0]
  /\ client' = "start_rec_flag"
  /\ UNCHANGED <<rbvars, pbvars, pipeline_rest, disk, rec_call>>

\* lines 45-47: self.is_recording = True; return
StartRecordingFlag ==
  /\ client = "start_rec_flag"
  /\ rec' = [rec EXCEPT !.is_recording = TRUE]
  /\ client' = "idle"
  /\ UNCHANGED <<rbvars, pbvars, pipeline_rest, disk, rec_call>>

StartRecording ==
  \/ StartRecordingBegin
  \/ StartRecordingMkdir
  \/ StartRecordingCounter
  \/ StartRecordingFlag

\* stop_recording(), lines 84-88: on an idle service the call returns
\* ("", 0); else the folder and the counter are read, which are the values
\* the call will return. observed: the return value is recorded.
stop_recording_enter(observed) ==
  /\ client = "idle"
  /\ IF ~rec.is_recording
       THEN /\ UNCHANGED client
            /\ IF observed
                 THEN RecReturns("stop_recording", None, <<"", 0>>)
                 ELSE UNCHANGED rec_call
       ELSE /\ client' = "stop_rec_flag"
            /\ IF observed
                 THEN RecReturns("stop_recording", None,
                                 <<rec.current_recording_folder[1],
                                   rec.frame_counter>>)
                 ELSE UNCHANGED rec_call
  /\ UNCHANGED <<rbvars, pbvars, pipeline_rest, rec, disk>>

\* RecordingService.stop_recording(), called by the owner of the pipeline
StopRecordingBegin == stop_recording_enter(FALSE)

StopRecordingFlag == stop_recording_flag("stop_rec_flag", "stop_rec_folder")
StopRecordingFolder == stop_recording_folder("stop_rec_folder", "stop_rec_counter")
StopRecordingCounter == stop_recording_counter("stop_rec_counter", "idle")

StopRecording ==
  \/ StopRecordingBegin
  \/ StopRecordingFlag
  \/ StopRecordingFolder
  \/ StopRecordingCounter

\* ---- _acquisition_loop, thread t
\* line 108: while self.is_running
AcqWhile(t) ==
  /\ acq[t].pc = "while"
  /\ acq' = [acq EXCEPT ![t].pc = IF is_running THEN "read" ELSE "done"]
  /\ UNCHANGED <<rbvars, pbvars, proc_log, disk, rec_call, start_call, is_running, algorithm, source_buffer, processed_buffer,
                 processing_queue, acquisition_thread, processing_thread,
                 frames_acquired, frames_processed, proc, client, 
                 source, rec, faults, acq_log>>

\* lines 112-114: read_frame() returns a frame
AcqReadFrame(t) ==
  /\ acq[t].pc = "read"
  /\ source.reads < source.frames
  /\ acq' = [acq EXCEPT ![t].pc = "stamp", ![t].frame = Some(source.reads)]
  /\ source' = [source EXCEPT !.reads = @ + 1]
  /\ UNCHANGED <<rbvars, pbvars, proc_log, disk, rec_call, start_call, is_running, algorithm, source_buffer, processed_buffer,
                 processing_queue, acquisition_thread, processing_thread,
                 frames_acquired, frames_processed, proc, client, 
                 rec, faults, acq_log>>

\* lines 112-114, 136-138: read_frame() returns None; sleep, next cycle
AcqReadNone(t) ==
  /\ acq[t].pc = "read"
  /\ acq' = [acq EXCEPT ![t].pc = "while"]
  /\ UNCHANGED <<rbvars, pbvars, proc_log, disk, rec_call, start_call, is_running, algorithm, source_buffer, processed_buffer,
                 processing_queue, acquisition_thread, processing_thread,
                 frames_acquired, frames_processed, proc, client, 
                 source, rec, faults, acq_log>>

\* The number a new frame is stamped with.
next_frame_number == frames_acquired

\* lines 116-121: FrameData(frame, now, frame_number=self.frames_acquired, ..)
AcqStamp(t) ==
  /\ acq[t].pc = "stamp"
  /\ acq' = [acq EXCEPT
       ![t].pc = "add",
       ![t].frame_data = Some(FrameData(acq[t].frame[1], next_frame_number, "src"))]
  /\ UNCHANGED <<rbvars, pbvars, proc_log, disk, rec_call, start_call, is_running, algorithm, source_buffer, processed_buffer,
                 processing_queue, acquisition_thread, processing_thread,
                 frames_acquired, frames_processed, proc, client, 
                 source, rec, faults, acq_log>>

\* line 124: self.source_buffer.add(frame_data)
AcqAdd(t) ==
  /\ acq[t].pc = "add"
  /\ source_buffer' = add(source_buffer, BufCap, acq[t].frame_data[1])
  /\ acq_log' = Append(acq_log, [frame_data |-> acq[t].frame_data[1],
                                  thread |-> t, put |-> "pending"])
  /\ acq' = [acq EXCEPT ![t].pc = "put"]
  /\ UNCHANGED <<rbvars, pbvars, proc_log, disk, rec_call, start_call, is_running, algorithm, processed_buffer, processing_queue,
                 acquisition_thread, processing_thread, frames_acquired,
                 frames_processed, proc, client, source, rec, faults>>

\* A put that makes room by discarding the head of a full queue.
put_evict_oldest(queue, maxsize, item) ==
  IF Len(queue) >= maxsize THEN Append(Tail(queue), item) ELSE Append(queue, item)

\* Queue.put(item, block=False) on a Queue(maxsize): the queue afterwards;
\* on a full queue queue.Full is raised and the queue is as before.
put_nowait(queue, maxsize, item) ==
  IF Len(queue) >= maxsize THEN queue ELSE Append(queue, item)

\* The history entry of the frame thread t appended last.
LastOf(t) ==
  CHOOSE i \in 1..Len(acq_log) :
    /\ acq_log[i].thread = t
    /\ \A j \in (i + 1)..Len(acq_log) : acq_log[j].thread # t

\* A put that waits for room (block=True).
AcqPutBlocking(t) ==
  /\ acq[t].pc = "put"
  /\ Len(processing_queue) < QueueMaxSize
  /\ processing_queue' = Append(processing_queue, acq[t].frame_data[1])
  /\ acq_log' = [acq_log EXCEPT ![LastOf(t)].put = "queued"]
  /\ acq' = [acq EXCEPT ![t].pc = "inc_load"]
  /\ UNCHANGED <<rbvars, pbvars, proc_log, disk, rec_call, start_call, is_running, algorithm, source_buffer, processed_buffer,
                 acquisition_thread, processing_thread, frames_acquired,
                 frames_processed, proc, client, source, rec, faults>>

\* lines 127-130: non-blocking put; a full queue drops the frame
AcqPut(t) ==
  /\ acq[t].pc = "put"
  /\ processing_queue' = put_nowait(processing_queue, QueueMaxSize, acq[t].frame_data[1])
  /\ acq_log' = [acq_log EXCEPT ![LastOf(t)].put =
                   IF Len(processing_queue) >= QueueMaxSize THEN "dropped" ELSE "queued"]
  /\ acq' = [acq EXCEPT ![t].pc = "inc_load"]
  /\ UNCHANGED <<rbvars, pbvars, proc_log, disk, rec_call, start_call, is_running, algorithm, source_buffer, processed_buffer,
                 acquisition_thread, processing_thread, frames_acquired,
                 frames_processed, proc, client, source, rec, faults>>

\* line 132: self.frames_acquired += 1, the load
AcqIncLoad(t) ==
  /\ acq[t].pc = "inc_load"
  /\ acq' = [acq EXCEPT ![t].pc = "inc_store", ![t].tmp = frames_acquired]
  /\ UNCHANGED <<rbvars, pbvars, proc_log, disk, rec_call, start_call, is_running, algorithm, source_buffer, processed_buffer,
                 processing_queue, acquisition_thread, processing_thread,
                 frames_acquired, frames_processed, proc, client, 
                 source, rec, faults, acq_log>>

\* line 132: self.frames_acquired += 1, the store; the cycle is over
AcqIncStore(t) ==
  /\ acq[t].pc = "inc_store"
  /\ frames_acquired' = acq[t].tmp + 1
  /\ acq' = [acq EXCEPT ![t] = [pc |-> "while", frame |-> None,
                                frame_data |-> None, tmp |-> 0]]
  /\ UNCHANGED <<rbvars, pbvars, proc_log, disk, rec_call, start_call, is_running, algorithm, source_buffer, processed_buffer,
                 processing_queue, acquisition_thread, processing_thread,
                 frames_processed, proc, client, source, rec, faults,
                 acq_log>>

acquisition_loop(t) ==
  \/ AcqWhile(t)
  \/ AcqReadFrame(t)
  \/ AcqReadNone(t)
  \/ AcqStamp(t)
  \/ AcqAdd(t)
  \/ AcqPut(t)
  \/ AcqIncLoad(t)
  \/ AcqIncStore(t)

\* line 112: self.data_source.read_frame() raises; nothing in the loop
\* catches the exception and the thread ends
AcqReadRaises(t) ==
  /\ acq[t].pc = "read"
  /\ acq' = [acq EXCEPT ![t].pc = "done"]
  /\ UNCHANGED <<rbvars, pbvars, proc_log, disk, rec_call, start_call, is_running, algorithm, source_buffer, processed_buffer,
                 processing_queue, acquisition_thread, processing_thread,
                 frames_acquired, frames_processed, proc, client,
                 source, rec, faults, acq_log>>

\* line 120: self.data_source.get_info() raises while the FrameData is being
\* built; nothing in the loop catches the exception and the thread ends
AcqGetInfoRaises(t) ==
  /\ acq[t].pc = "stamp"
  /\ acq' = [acq EXCEPT ![t].pc = "done"]
  /\ UNCHANGED <<rbvars, pbvars, proc_log, disk, rec_call, start_call, is_running, algorithm, source_buffer, processed_buffer,
                 processing_queue, acquisition_thread, processing_thread,
                 frames_acquired, frames_processed, proc, client,
                 source, rec, faults, acq_log>>

\* ---- _processing_loop, thread t
ProcIdleLocals(pc) ==
  [pc |-> pc, frame_data |-> None, processed_frame |-> None,
   processed_data |-> None, tmp |-> 0, alg_at_get |-> None,
   filename |-> None, filepath |-> None]

\* line 143: while self.is_running
ProcWhile(t) ==
  /\ proc[t].pc = "while"
  /\ proc' = [proc EXCEPT ![t].pc = IF is_running THEN "get" ELSE "done"]
  /\ UNCHANGED <<rbvars, pbvars, proc_log, disk, rec_call, start_call, is_running, algorithm, source_buffer, processed_buffer,
                 processing_queue, acquisition_thread, processing_thread,
                 frames_acquired, frames_processed, acq, client, 
                 source, rec, faults, acq_log>>

\* A get() without timeout: it waits until the queue holds an item.
ProcGetBlocking(t) ==
  /\ proc[t].pc = "get"
  /\ processing_queue # <<>>
  /\ proc' = [proc EXCEPT ![t].pc = "process",
                          ![t].frame_data = Some(Head(processing_queue)),
                          ![t].alg_at_get = Some(algorithm)]
  /\ processing_queue' = Tail(processing_queue)
  /\ UNCHANGED <<rbvars, pbvars, proc_log, disk, rec_call, start_call, is_running, algorithm, source_buffer, processed_buffer,
                 acquisition_thread, processing_thread, frames_acquired,
                 frames_processed, acq, client, source, rec, faults,
                 acq_log>>

\* lines 146, 180-181: processing_queue.get(timeout=0.1) returns the head of
\* the queue, or raises Empty after the timeout when the queue is empty
ProcGet(t) ==
  /\ proc[t].pc = "get"
  /\ IF processing_queue # <<>>
       THEN /\ proc' = [proc EXCEPT ![t].pc = "process",
                                    ![t].frame_data = Some(Head(processing_queue)),
                                    ![t].alg_at_get = Some(algorithm)]
            /\ processing_queue' = Tail(processing_queue)
       ELSE /\ proc' = [proc EXCEPT ![t].pc = "while"]
            /\ UNCHANGED processing_queue
  /\ UNCHANGED <<rbvars, pbvars, proc_log, disk, rec_call, start_call, is_running, algorithm, source_buffer, processed_buffer,
                 acquisition_thread, processing_thread, frames_acquired,
                 frames_processed, acq, client, source, rec, faults,
                 acq_log>>

\* line 151: self.algorithm.process(frame_data.frame) returns
ProcProcess(t) ==
  /\ proc[t].pc = "process"
  /\ proc' = [proc EXCEPT
       ![t].pc = "wrap",
       ![t].processed_frame = Some(process(algorithm, proc[t].frame_data[1].frame))]
  /\ UNCHANGED <<rbvars, pbvars, proc_log, disk, rec_call, start_call, is_running, algorithm, source_buffer, processed_buffer,
                 processing_queue, acquisition_thread, processing_thread,
                 frames_acquired, frames_processed, acq, client, 
                 source, rec, faults, acq_log>>

\* A fault handler that counts the frame as processed.
ProcProcessRaisesCounted(t) ==
  /\ proc[t].pc = "process"
  /\ faults < MaxFaults
  /\ faults' = faults + 1
  /\ frames_processed' = frames_processed + 1
  /\ proc' = [proc EXCEPT ![t] = ProcIdleLocals("while")]
  /\ UNCHANGED <<rbvars, pbvars, proc_log, disk, rec_call, start_call, is_running, algorithm, source_buffer, processed_buffer,
                 processing_queue, acquisition_thread, processing_thread,
                 frames_acquired, acq, client,
                 source, rec, acq_log>>

\* lines 151, 182-183: process() raises; the handler logs and the loop goes on
ProcProcessRaises(t) ==
  /\ proc[t].pc = "process"
  /\ faults < MaxFaults
  /\ faults' = faults + 1
  /\ proc' = [proc EXCEPT ![t] = ProcIdleLocals("while")]
  /\ UNCHANGED <<rbvars, pbvars, proc_log, disk, rec_call, start_call, is_running, algorithm, source_buffer, processed_buffer,
                 processing_queue, acquisition_thread, processing_thread,
                 frames_acquired, frames_processed, acq, client, 
                 source, rec, acq_log>>

\* A processed frame numbered by the count of processed frames.
processed_FrameData_by_count(processed_frame, frame_data, alg) ==
  FrameData(processed_frame, frames_processed, alg)

\* lines 154-159: the FrameData of the processed frame
processed_FrameData(processed_frame, frame_data, alg) ==
  FrameData(processed_frame, frame_data.frame_number, alg)

ProcWrap(t) ==
  /\ proc[t].pc = "wrap"
  /\ proc' = [proc EXCEPT
       ![t].pc = "add",
       ![t].processed_data =
          Some(processed_FrameData(proc[t].processed_frame[1],
                                   proc[t].frame_data[1], algorithm))]
  /\ UNCHANGED <<rbvars, pbvars, proc_log, disk, rec_call, start_call, is_running, algorithm, source_buffer, processed_buffer,
                 processing_queue, acquisition_thread, processing_thread,
                 frames_acquired, frames_processed, acq, client, 
                 source, rec, faults, acq_log>>

\* line 162: self.processed_buffer.add(processed_data)
ProcAdd(t) ==
  /\ proc[t].pc = "add"
  /\ processed_buffer' = add(processed_buffer, BufCap, proc[t].processed_data[1])
  /\ proc' = [proc EXCEPT ![t].pc = "rec_check"]
  /\ proc_log' = [proc_log EXCEPT !.appended = @ + 1]
  /\ UNCHANGED <<rbvars, pbvars, disk, rec_call, start_call, is_running, algorithm, source_buffer, processing_queue,
                 acquisition_thread, processing_thread, frames_acquired,
                 frames_processed, acq, client, source, rec, faults,
                 acq_log>>

\* line 165: if self.recording_service.is_recording_active()
ProcRecCheck(t) ==
  /\ proc[t].pc = "rec_check"
  /\ proc' = [proc EXCEPT ![t].pc = IF rec.is_recording THEN "record" ELSE "count_load"]
  /\ UNCHANGED <<rbvars, pbvars, proc_log, disk, rec_call, start_call, is_running, algorithm, source_buffer, processed_buffer,
                 processing_queue, acquisition_thread, processing_thread,
                 frames_acquired, frames_processed, acq, client, 
                 source, rec, faults, acq_log>>

\* A record_frame that does not look at the recording flag.
record_frame_unchecked(r, d, success) ==
  IF success
    THEN [rec |-> [r EXCEPT !.frame_counter = @ + 1],
          disk |-> IF r.current_recording_folder = None THEN d
                   ELSE [d EXCEPT ![r.current_recording_folder[1]] =
                           Some(@[1] \cup {r.frame_counter})],
          val |-> TRUE]
    ELSE [rec |-> r, disk |-> d, val |-> FALSE]

\* RecordingService.record_frame(frame), lines 49-75: the service and the
\* directories afterwards and the returned flag, given whether cv2.imwrite
\* reports success; the file written is frame_<frame_counter>.png
record_frame(r, d, success) ==
  IF ~r.is_recording \/ r.current_recording_folder = None
    THEN [rec |-> r, disk |-> d, val |-> FALSE]
  ELSE IF success
    THEN [rec |-> [r EXCEPT !.frame_counter = @ + 1],
          disk |-> [d EXCEPT ![r.current_recording_folder[1]] =
                      Some(@[1] \cup {r.frame_counter})],
          val |-> TRUE]
  ELSE [rec |-> r, disk |-> d, val |-> FALSE]

\* line 166: self.recording_service.record_frame(processed_frame), run by the
\* processing thread statement by statement: the service has no lock, and
\* the owner's start_recording() and stop_recording() run in between.
\* recording_service.py lines 59-60: the call returns False when no
\* recording is active
RecordFrameEnter(t) ==
  /\ proc[t].pc = "record"
  /\ proc' = [proc EXCEPT ![t].pc =
       IF ~rec.is_recording \/ rec.current_recording_folder = None
         THEN "count_load" ELSE "rec_name"]
  /\ UNCHANGED <<rbvars, pbvars, proc_log, disk, rec_call, start_call, is_running, algorithm, source_buffer, processed_buffer,
                 processing_queue, acquisition_thread, processing_thread,
                 frames_acquired, frames_processed, acq, client,
                 source, rec, faults, acq_log>>

\* recording_service.py line 63: the name of the file, from frame_counter as
\* it is now
RecordFrameName(t) ==
  /\ proc[t].pc = "rec_name"
  /\ proc' = [proc EXCEPT ![t].pc = "rec_path",
                          ![t].filename = Some(rec.frame_counter)]
  /\ UNCHANGED <<rbvars, pbvars, proc_log, disk, rec_call, start_call, is_running, algorithm, source_buffer, processed_buffer,
                 processing_queue, acquisition_thread, processing_thread,
                 frames_acquired, frames_processed, acq, client,
                 source, rec, faults, acq_log>>

\* recording_service.py line 64: the path of the file, in
\* current_recording_folder as it is now; when stop_recording() has reset
\* the folder to None, 'None / filename' raises and the handler of the cycle
\* (lines 182-183) ends the cycle
RecordFramePath(t) ==
  /\ proc[t].pc = "rec_path"
  /\ proc' = [proc EXCEPT ![t] =
       IF rec.current_recording_folder = None
         THEN ProcIdleLocals("while")
         ELSE [@ EXCEPT !.pc = "rec_write",
                        !.filename = None,
                        !.filepath = Some(<<rec.current_recording_folder[1],
                                            proc[t].filename[1]>>)]]
  /\ UNCHANGED <<rbvars, pbvars, proc_log, disk, rec_call, start_call, is_running, algorithm, source_buffer, processed_buffer,
                 processing_queue, acquisition_thread, processing_thread,
                 frames_acquired, frames_processed, acq, client,
                 source, rec, faults, acq_log>>

\* recording_service.py lines 67-72: cv2.imwrite(filepath, ..) writes the
\* file and reports success, or reports failure (as it does when the
\* directory does not exist) and record_frame returns False
RecordFrameWrite(t) ==
  /\ proc[t].pc = "rec_write"
  /\ \E success \in BOOLEAN :
       LET folder == proc[t].filepath[1][1]
           index == proc[t].filepath[1][2] IN
         /\ success => index < MaxWrites /\ disk[folder] # None
         /\ disk' = IF success
                      THEN [disk EXCEPT ![folder] = Some(@[1] \cup {index})]
                      ELSE disk
         /\ proc' = [proc EXCEPT
              ![t].pc = IF success THEN "rec_inc_load" ELSE "count_load",
              ![t].filepath = None]
  /\ UNCHANGED <<rbvars, pbvars, proc_log, rec_call, start_call, is_running, algorithm, source_buffer, processed_buffer,
                 processing_queue, acquisition_thread, processing_thread,
                 frames_acquired, frames_processed, acq, client,
                 source, rec, faults, acq_log>>

\* recording_service.py line 73: self.frame_counter += 1, the load
RecordFrameIncLoad(t) ==
  /\ proc[t].pc = "rec_inc_load"
  /\ proc' = [proc EXCEPT ![t].pc = "rec_inc_store", ![t].tmp = rec.frame_counter]
  /\ UNCHANGED <<rbvars, pbvars, proc_log, disk, rec_call, start_call, is_running, algorithm, source_buffer, processed_buffer,
                 processing_queue, acquisition_thread, processing_thread,
                 frames_acquired, frames_processed, acq, client,
                 source, rec, faults, acq_log>>

\* recording_service.py lines 73-75: self.frame_counter += 1, the store;
\* record_frame returns True
RecordFrameIncStore(t) ==
  /\ proc[t].pc = "rec_inc_store"
  /\ rec' = [rec EXCEPT !.frame_counter = proc[t].tmp + 1]
  /\ proc' = [proc EXCEPT ![t].pc = "count_load", ![t].tmp = 0]
  /\ UNCHANGED <<rbvars, pbvars, proc_log, disk, rec_call, start_call, is_running, algorithm, source_buffer, processed_buffer,
                 processing_queue, acquisition_thread, processing_thread,
                 frames_acquired, frames_processed, acq, client,
                 source, faults, acq_log>>

\* recording_service.py line 67 and lines 182-183: cv2.cvtColor raises on a
\* frame it cannot convert; the handler of the cycle logs the error and the
\* loop goes on with the next cycle
ProcRecordRaises(t) ==
  /\ proc[t].pc = "rec_write"
  /\ proc' = [proc EXCEPT ![t] = ProcIdleLocals("while")]
  /\ UNCHANGED <<rbvars, pbvars, proc_log, disk, rec_call, start_call, is_running, algorithm, source_buffer, processed_buffer,
                 processing_queue, acquisition_thread, processing_thread,
                 frames_acquired, frames_processed, acq, client,
                 source, rec, faults, acq_log>>

\* line 168: self.frames_processed += 1, the load
ProcCountLoad(t) ==
  /\ proc[t].pc = "count_load"
  /\ proc' = [proc EXCEPT ![t].pc = "count_store", ![t].tmp = frames_processed]
  /\ UNCHANGED <<rbvars, pbvars, proc_log, disk, rec_call, start_call, is_running, algorithm, source_buffer, processed_buffer,
                 processing_queue, acquisition_thread, processing_thread,
                 frames_acquired, frames_processed, acq, client, 
                 source, rec, faults, acq_log>>

\* line 168: self.frames_processed += 1, the store
ProcCountStore(t) ==
  /\ proc[t].pc = "count_store"
  /\ frames_processed' = proc[t].tmp + 1
  /\ proc' = [proc EXCEPT ![t].pc = "callback", ![t].tmp = 0]
  /\ UNCHANGED <<rbvars, pbvars, proc_log, disk, rec_call, start_call, is_running, algorithm, source_buffer, processed_buffer,
                 processing_queue, acquisition_thread, processing_thread,
                 frames_acquired, acq, client, source, rec, faults,
                 acq_log>>

\* lines 174-176: on_new_frame is not set, or it is called and returns; the
\* cycle is over
ProcCallback(t) ==
  /\ proc[t].pc = "callback"
  /\ proc' = [proc EXCEPT ![t] = ProcIdleLocals("while")]
  /\ proc_log' = [proc_log EXCEPT !.callbacks = @ + 1]
  /\ UNCHANGED <<rbvars, pbvars, disk, rec_call, start_call, is_running, algorithm, source_buffer, processed_buffer,
                 processing_queue, acquisition_thread, processing_thread,
                 frames_acquired, frames_processed, acq, client, 
                 source, rec, faults, acq_log>>

\* A callback whose exception ends the thread.
ProcCallbackRaisesUncaught(t) ==
  /\ proc[t].pc = "callback"
  /\ proc' = [proc EXCEPT ![t] = ProcIdleLocals("done")]
  /\ proc_log' = [proc_log EXCEPT !.callbacks = @ + 1]
  /\ UNCHANGED <<rbvars, pbvars, disk, rec_call, start_call, is_running, algorithm, source_buffer, processed_buffer,
                 processing_queue, acquisition_thread, processing_thread,
                 frames_acquired, frames_processed, acq, client,
                 source, rec, faults, acq_log>>

\* lines 176-177: on_new_frame(frame_data, processed_data) raises and the
\* inner handler catches the exception
ProcCallbackRaises(t) ==
  /\ proc[t].pc = "callback"
  /\ proc' = [proc EXCEPT ![t].pc = "cb_except"]
  /\ proc_log' = [proc_log EXCEPT !.callbacks = @ + 1]
  /\ UNCHANGED <<rbvars, pbvars, disk, rec_call, start_call, is_running, algorithm, source_buffer, processed_buffer,
                 processing_queue, acquisition_thread, processing_thread,
                 frames_acquired, frames_processed, acq, client,
                 source, rec, faults, acq_log>>

\* line 178: the handler logs the error; the cycle is over
ProcCallbackExcept(t) ==
  /\ proc[t].pc = "cb_except"
  /\ proc' = [proc EXCEPT ![t] = ProcIdleLocals("while")]
  /\ UNCHANGED <<rbvars, pbvars, proc_log, disk, rec_call, start_call, is_running, algorithm, source_buffer, processed_buffer,
                 processing_queue, acquisition_thread, processing_thread,
                 frames_acquired, frames_processed, acq, client,
                 source, rec, faults, acq_log>>

processing_loop(t) ==
  \/ ProcWhile(t)
  \/ ProcGet(t)
  \/ ProcProcess(t)
  \/ ProcProcessRaises(t)
  \/ ProcWrap(t)
  \/ ProcAdd(t)
  \/ ProcRecCheck(t)
  \/ RecordFrameEnter(t)
  \/ RecordFrameName(t)
  \/ RecordFramePath(t)
  \/ RecordFrameWrite(t)
  \/ RecordFrameIncLoad(t)
  \/ RecordFrameIncStore(t)
  \/ ProcCountLoad(t)
  \/ ProcCountStore(t)
  \/ ProcCallback(t)
  \/ ProcCallbackRaises(t)
  \/ ProcCallbackExcept(t)

\* ---- set_algorithm(algorithm), lines 222-225: the swap, under the lock
SetAlgorithm ==
  /\ client = "idle"
  /\ \E a \in Algorithms : algorithm' = a
  /\ UNCHANGED <<rbvars, pbvars, proc_log, disk, rec_call, start_call, is_running, source_buffer, processed_buffer,
                 processing_queue, acquisition_thread, processing_thread,
                 frames_acquired, frames_processed, acq, proc, client,
                 source, rec, faults, acq_log>>

\* ------------------------------------------------------ PlaybackController
PlayThreads == 1..MaxPlayThreads

Max2(a, b) == IF a >= b THEN a ELSE b

\* fps of PlaybackController.__init__ (line 20) and of the application
DefaultFps == 30

\* The range set_fps() clamps to (line 108)
MinFps == 1
MaxFps == 120

\* The values set_fps() is called with: below, at and above both ends of the
\* range, and one inside it.
FpsInputs == {MinFps - 1, MinFps, 60, MaxFps, MaxFps + 1}

\* 1.0 / fps (line 148), as the fraction <<numerator, denominator>>
Interval(fps) == <<1, fps>>

\* A drive-loop thread that play() has not created; current_frame and
\* frame_time are the locals of _play_loop.
PlayLoopUnstarted == [pc |-> "unstarted", current_frame |-> 0, frame_time |-> None]

\* Thread.is_alive()
PlayAlive(th) == th.pc \notin {"unstarted", "done"}

\* Drive-loop threads created so far.
PlayLaunched == Cardinality({t \in PlayThreads : pb_loop[t].pc # "unstarted"})

\* PlaybackController.__init__; the caller has made no call yet.
PBInit ==
  /\ pb_fps = DefaultFps
  /\ pb_state = "stopped"
  /\ pb_current_frame = 0
  /\ pb_loop_enabled = FALSE
  /\ pb_total_frames = None
  /\ pb_lock = "free"
  /\ pb_play_thread = 0
  /\ pb_stop_event = FALSE
  /\ pb_callback_set = FALSE
  /\ pb_loop = [t \in PlayThreads |-> PlayLoopUnstarted]
  /\ pb_caller = [pc |-> "idle", op |-> "none", arg |-> 0, flip |-> FALSE]
  /\ pb_calls = [last |-> None, n |-> 0]

\* if self._frame_callback: self._frame_callback(n).  The history keeps the
\* frame number given, whether the controller lock was held by the thread
\* that made the call, and the count of invocations (modulo CallsMod).
frame_callback(log, n, locked) ==
  IF pb_callback_set
    THEN [last |-> Some([frame |-> n, locked |-> locked]),
          n |-> (log.n + 1) % CallsMod]
    ELSE log

\* The call the caller is in returns (history: its name and argument).  A
\* play() or pause() made inside toggle_play_pause() returns into it, and
\* toggle_play_pause() returns in turn.
Returns(op, arg) ==
  pb_caller' = [pc |-> "idle",
                op |-> IF pb_caller.pc = "toggle_call" THEN "toggle_play_pause" ELSE op,
                arg |-> arg,
                flip |-> ~pb_caller.flip]

\* set_frame_callback(callback), lines 38-40 (no lock)
SetFrameCallback ==
  /\ pb_caller.pc = "idle"
  /\ pb_callback_set' = TRUE
  /\ Returns("set_frame_callback", 0)
  /\ UNCHANGED <<rbvars, pvars, pb_fps, pb_state, pb_current_frame, pb_loop_enabled,
                 pb_total_frames, pb_lock, pb_play_thread, pb_stop_event,
                 pb_loop, pb_calls>>

\* A play() that starts a drive loop whether or not one is alive.
PlayStartsAnother ==
  /\ pb_caller.pc \in {"idle", "toggle_call"}
  /\ pb_lock = "free"
  /\ IF pb_state = "playing"
       THEN UNCHANGED <<pb_state, pb_stop_event, pb_play_thread, pb_loop>>
       ELSE /\ pb_state' = "playing"
            /\ pb_stop_event' = FALSE
            /\ PlayLaunched < MaxPlayThreads
            /\ pb_play_thread' = PlayLaunched + 1
            /\ pb_loop' = [pb_loop EXCEPT ![PlayLaunched + 1].pc = "while"]
  /\ Returns("play", 0)
  /\ UNCHANGED <<rbvars, pvars, pb_fps, pb_current_frame, pb_loop_enabled,
                 pb_total_frames, pb_lock, pb_callback_set, pb_calls>>

\* play(), lines 42-53, called directly or from toggle_play_pause() line 75;
\* "with self._lock" waits until the lock is free
Play ==
  /\ pb_caller.pc \in {"idle", "toggle_call"}
  /\ pb_caller.pc = "toggle_call" => pb_state # "playing"
  /\ pb_lock = "free"
  /\ IF pb_state = "playing"
       THEN UNCHANGED <<pb_state, pb_stop_event, pb_play_thread, pb_loop>>
       ELSE /\ pb_state' = "playing"
            /\ pb_stop_event' = FALSE
            /\ IF pb_play_thread = 0 \/ ~PlayAlive(pb_loop[pb_play_thread])
                 THEN /\ PlayLaunched < MaxPlayThreads
                      /\ pb_play_thread' = PlayLaunched + 1
                      /\ pb_loop' = [pb_loop EXCEPT ![PlayLaunched + 1].pc = "while"]
                 ELSE UNCHANGED <<pb_play_thread, pb_loop>>
  /\ Returns("play", 0)
  /\ UNCHANGED <<rbvars, pvars, pb_fps, pb_current_frame, pb_loop_enabled,
                 pb_total_frames, pb_lock, pb_callback_set, pb_calls>>

\* A pause() that does not look at the state.
PauseAnyState ==
  /\ pb_caller.pc \in {"idle", "toggle_call"}
  /\ pb_lock = "free"
  /\ pb_state' = "paused"
  /\ pb_stop_event' = TRUE
  /\ Returns("pause", 0)
  /\ UNCHANGED <<rbvars, pvars, pb_fps, pb_current_frame, pb_loop_enabled,
                 pb_total_frames, pb_lock, pb_play_thread, pb_callback_set,
                 pb_loop, pb_calls>>

\* pause(), lines 55-60, called directly or from toggle_play_pause() line 73
Pause ==
  /\ pb_caller.pc \in {"idle", "toggle_call"}
  /\ pb_caller.pc = "toggle_call" => pb_state = "playing"
  /\ pb_lock = "free"
  /\ IF pb_state = "playing"
       THEN /\ pb_state' = "paused"
            /\ pb_stop_event' = TRUE
       ELSE UNCHANGED <<pb_state, pb_stop_event>>
  /\ Returns("pause", 0)
  /\ UNCHANGED <<rbvars, pvars, pb_fps, pb_current_frame, pb_loop_enabled,
                 pb_total_frames, pb_lock, pb_play_thread, pb_callback_set,
                 pb_loop, pb_calls>>

\* stop(), lines 62-67
Stop ==
  /\ pb_caller.pc = "idle"
  /\ pb_lock = "free"
  /\ pb_state' = "stopped"
  /\ pb_stop_event' = TRUE
  /\ pb_current_frame' = 0
  /\ Returns("stop", 0)
  /\ UNCHANGED <<rbvars, pvars, pb_fps, pb_loop_enabled, pb_total_frames, pb_lock,
                 pb_play_thread, pb_callback_set, pb_loop, pb_calls>>

\* toggle_play_pause(), lines 69-72: takes the lock and goes on to call
\* pause() or play() while holding it
ToggleLock ==
  /\ pb_caller.pc = "idle"
  /\ pb_lock = "free"
  /\ pb_lock' = "toggle_play_pause"
  /\ pb_caller' = [pb_caller EXCEPT !.pc = "toggle_call"]
  /\ UNCHANGED <<rbvars, pvars, pb_fps, pb_state, pb_current_frame, pb_loop_enabled,
                 pb_total_frames, pb_play_thread, pb_stop_event,
                 pb_callback_set, pb_loop, pb_calls>>

\* step_forward(), lines 77-83
StepForward ==
  /\ pb_caller.pc = "idle"
  /\ pb_lock = "free"
  /\ pb_total_frames = None => pb_current_frame < MaxPos
  /\ IF pb_total_frames = None \/ pb_current_frame < pb_total_frames[1] - 1
       THEN /\ pb_current_frame' = pb_current_frame + 1
            /\ pb_calls' = frame_callback(pb_calls, pb_current_frame + 1, TRUE)
       ELSE UNCHANGED <<pb_current_frame, pb_calls>>
  /\ Returns("step_forward", 0)
  /\ UNCHANGED <<rbvars, pvars, pb_fps, pb_state, pb_loop_enabled, pb_total_frames,
                 pb_lock, pb_play_thread, pb_stop_event, pb_callback_set,
                 pb_loop>>

\* step_backward(), lines 85-91
StepBackward ==
  /\ pb_caller.pc = "idle"
  /\ pb_lock = "free"
  /\ IF pb_current_frame > 0
       THEN /\ pb_current_frame' = pb_current_frame - 1
            /\ pb_calls' = frame_callback(pb_calls, pb_current_frame - 1, TRUE)
       ELSE UNCHANGED <<pb_current_frame, pb_calls>>
  /\ Returns("step_backward", 0)
  /\ UNCHANGED <<rbvars, pvars, pb_fps, pb_state, pb_loop_enabled, pb_total_frames,
                 pb_lock, pb_play_thread, pb_stop_event, pb_callback_set,
                 pb_loop>>

\* A seek that stores its argument as it is.
seek_unclamped(total_frames, frame_number) == frame_number

\* seek(), lines 96-99: the frame number after clamping
seek_clamp(total_frames, frame_number) ==
  IF total_frames # None
    THEN Max2(0, Min2(frame_number, total_frames[1] - 1))
    ELSE Max2(0, frame_number)

\* seek(frame_number), lines 93-103
Seek ==
  /\ pb_caller.pc = "idle"
  /\ pb_lock = "free"
  /\ \E frame_number \in (-1)..(MaxPos + 1) :
       LET n == seek_clamp(pb_total_frames, frame_number) IN
         /\ n <= MaxPos
         /\ pb_current_frame' = n
         /\ pb_calls' = frame_callback(pb_calls, n, TRUE)
         /\ Returns("seek", frame_number)
  /\ UNCHANGED <<rbvars, pvars, pb_fps, pb_state, pb_loop_enabled, pb_total_frames,
                 pb_lock, pb_play_thread, pb_stop_event, pb_callback_set,
                 pb_loop>>

\* A set_fps that stores its argument as it is.
fps_unclamped(fps) == fps

\* line 108: max(1.0, min(fps, 120.0))
fps_clamp(fps) == Max2(MinFps, Min2(fps, MaxFps))

\* set_fps(fps), lines 105-108
SetFps ==
  /\ pb_caller.pc = "idle"
  /\ pb_lock = "free"
  /\ \E fps \in FpsInputs :
       /\ pb_fps' = fps_clamp(fps)
       /\ Returns("set_fps", fps)
  /\ UNCHANGED <<rbvars, pvars, pb_state, pb_current_frame, pb_loop_enabled,
                 pb_total_frames, pb_lock, pb_play_thread, pb_stop_event,
                 pb_callback_set, pb_loop, pb_calls>>

\* set_loop(enabled), lines 114-117
SetLoop ==
  /\ pb_caller.pc = "idle"
  /\ pb_lock = "free"
  /\ \E enabled \in BOOLEAN : pb_loop_enabled' = enabled
  /\ Returns("set_loop", 0)
  /\ UNCHANGED <<rbvars, pvars, pb_fps, pb_state, pb_current_frame, pb_total_frames,
                 pb_lock, pb_play_thread, pb_stop_event, pb_callback_set,
                 pb_loop, pb_calls>>

\* set_total_frames(total), lines 123-126, with None or a count of frames
SetTotalFrames ==
  /\ pb_caller.pc = "idle"
  /\ pb_lock = "free"
  /\ \E total \in {None} \cup {Some(n) : n \in 1..MaxTotal} :
       pb_total_frames' = total
  /\ Returns("set_total_frames", 0)
  /\ UNCHANGED <<rbvars, pvars, pb_fps, pb_state, pb_current_frame, pb_loop_enabled,
                 pb_lock, pb_play_thread, pb_stop_event, pb_callback_set,
                 pb_loop, pb_calls>>

\* ---- _play_loop, thread t
\* line 142: while not self._stop_event.is_set()
PlayLoopWhile(t) ==
  /\ pb_loop[t].pc = "while"
  /\ pb_loop' = [pb_loop EXCEPT ![t].pc = IF pb_stop_event THEN "return" ELSE "tick"]
  /\ UNCHANGED <<rbvars, pvars, pb_fps, pb_state, pb_current_frame, pb_loop_enabled,
                 pb_total_frames, pb_lock, pb_play_thread, pb_stop_event,
                 pb_callback_set, pb_caller, pb_calls>>

\* A tick that does not look at the state.
PlayLoopTickAnyState(t) ==
  /\ pb_loop[t].pc = "tick"
  /\ pb_lock = "free"
  /\ pb_current_frame < MaxPos
  /\ pb_current_frame' = pb_current_frame + 1
  /\ pb_loop' = [pb_loop EXCEPT ![t].pc = "callback",
                                ![t].frame_time = Interval(pb_fps),
                                ![t].current_frame = pb_current_frame + 1]
  /\ UNCHANGED <<rbvars, pvars, pb_fps, pb_state, pb_loop_enabled, pb_total_frames,
                 pb_lock, pb_play_thread, pb_stop_event, pb_callback_set,
                 pb_caller, pb_calls>>

\* A tick that goes on past the last frame when looping is off.
PlayLoopTickPastEnd(t) ==
  /\ pb_loop[t].pc = "tick"
  /\ pb_lock = "free"
  /\ IF pb_state # "playing"
       THEN /\ pb_loop' = [pb_loop EXCEPT ![t].pc = "return"]
            /\ UNCHANGED pb_current_frame
       ELSE LET at == IF /\ pb_total_frames # None
                         /\ pb_current_frame >= pb_total_frames[1] - 1
                         /\ pb_loop_enabled
                        THEN 0 ELSE pb_current_frame
            IN /\ at < MaxPos
               /\ pb_current_frame' = at + 1
               /\ pb_loop' = [pb_loop EXCEPT ![t].pc = "callback",
                                             ![t].frame_time = Interval(pb_fps),
                                             ![t].current_frame = at + 1]
  /\ UNCHANGED <<rbvars, pvars, pb_fps, pb_state, pb_loop_enabled, pb_total_frames,
                 pb_lock, pb_play_thread, pb_stop_event, pb_callback_set,
                 pb_caller, pb_calls>>

\* lines 143-160: one tick, under the lock
PlayLoopTick(t) ==
  /\ pb_loop[t].pc = "tick"
  /\ pb_lock = "free"
  /\ IF pb_state # "playing"
       THEN /\ pb_loop' = [pb_loop EXCEPT ![t].pc = "return"]
            /\ UNCHANGED <<pb_state, pb_current_frame>>
       ELSE IF /\ pb_total_frames # None
               /\ pb_current_frame >= pb_total_frames[1] - 1
               /\ ~pb_loop_enabled
         THEN /\ pb_state' = "paused"
              /\ pb_loop' = [pb_loop EXCEPT ![t].pc = "return"]
              /\ UNCHANGED pb_current_frame
         ELSE LET at == IF /\ pb_total_frames # None
                           /\ pb_current_frame >= pb_total_frames[1] - 1
                          THEN 0 ELSE pb_current_frame
              IN /\ at < MaxPos
                 /\ pb_current_frame' = at + 1
                 /\ pb_loop' = [pb_loop EXCEPT ![t].pc = "callback",
                                               ![t].frame_time = Interval(pb_fps),
                                               ![t].current_frame = at + 1]
                 /\ UNCHANGED pb_state
  /\ UNCHANGED <<rbvars, pvars, pb_fps, pb_loop_enabled, pb_total_frames, pb_lock,
                 pb_play_thread, pb_stop_event, pb_callback_set, pb_caller,
                 pb_calls>>

\* lines 163-167: the callback, outside the lock, then the sleep of
\* frame_time (the locals are not read again before the next tick assigns
\* them)
PlayLoopCallback(t) ==
  /\ pb_loop[t].pc = "callback"
  /\ pb_calls' = frame_callback(pb_calls, pb_loop[t].current_frame, FALSE)
  /\ pb_loop' = [pb_loop EXCEPT ![t].pc = "while", ![t].current_frame = 0,
                                ![t].frame_time = None]
  /\ UNCHANGED <<rbvars, pvars, pb_fps, pb_state, pb_current_frame, pb_loop_enabled,
                 pb_total_frames, pb_lock, pb_play_thread, pb_stop_event,
                 pb_callback_set, pb_caller>>

\* lines 163-164 with a callback that raises: nothing in _play_loop catches
\* the exception, so it leaves the while loop and the thread's target
PlayLoopCallbackRaises(t) ==
  /\ pb_loop[t].pc = "callback"
  /\ pb_callback_set
  /\ pb_calls' = frame_callback(pb_calls, pb_loop[t].current_frame, FALSE)
  /\ pb_loop' = [pb_loop EXCEPT ![t].pc = "return", ![t].current_frame = 0,
                                ![t].frame_time = None]
  /\ UNCHANGED <<rbvars, pvars, pb_fps, pb_state, pb_current_frame, pb_loop_enabled,
                 pb_total_frames, pb_lock, pb_play_thread, pb_stop_event,
                 pb_callback_set, pb_caller>>

\* _play_loop returns and the thread ends
PlayLoopReturn(t) ==
  /\ pb_loop[t].pc = "return"
  /\ pb_loop' = [pb_loop EXCEPT ![t].pc = "done"]
  /\ UNCHANGED <<rbvars, pvars, pb_fps, pb_state, pb_current_frame, pb_loop_enabled,
                 pb_total_frames, pb_lock, pb_play_thread, pb_stop_event,
                 pb_callback_set, pb_caller, pb_calls>>

play_loop(t) ==
  \/ PlayLoopWhile(t)
  \/ PlayLoopTick(t)
  \/ PlayLoopCallback(t)
  \/ PlayLoopCallbackRaises(t)
  \/ PlayLoopReturn(t)

\* ---- a frame callback that calls back into the controller
\* lines 163-164: the callback, invoked by the drive loop, calls pause(),
\* stop() or set_fps(fps); the call takes the lock, returns, and the callback
\* returns
PlayLoopCallbackCalls(t) ==
  /\ pb_loop[t].pc = "callback"
  /\ pb_callback_set
  /\ pb_lock = "free"
  /\ \/ /\ IF pb_state = "playing"
              THEN pb_state' = "paused" /\ pb_stop_event' = TRUE
              ELSE UNCHANGED <<pb_state, pb_stop_event>>
        /\ UNCHANGED <<pb_current_frame, pb_fps>>
     \/ /\ pb_state' = "stopped"
        /\ pb_stop_event' = TRUE
        /\ pb_current_frame' = 0
        /\ UNCHANGED pb_fps
     \/ /\ \E fps \in FpsInputs : pb_fps' = fps_clamp(fps)
        /\ UNCHANGED <<pb_state, pb_stop_event, pb_current_frame>>
  /\ pb_calls' = frame_callback(pb_calls, pb_loop[t].current_frame, FALSE)
  /\ pb_loop' = [pb_loop EXCEPT ![t].pc = "while", ![t].current_frame = 0,
                                ![t].frame_time = None]
  /\ UNCHANGED <<rbvars, pvars, pb_loop_enabled, pb_total_frames, pb_lock,
                 pb_play_thread, pb_callback_set, pb_caller>>

\* The callback calls seek(frame_number): seek() takes the lock, stores the
\* clamped number and invokes the callback again with the lock held (lines
\* 95-103).  A callback that was itself invoked by seek() and calls seek()
\* arrives here as well, at "with self._lock".
PlayLoopCallbackSeek(t) ==
  /\ pb_loop[t].pc \in {"callback", "cb_wait_lock"}
  /\ pb_callback_set
  /\ pb_lock = "free"
  /\ \E frame_number \in 0..MaxPos :
       LET n == seek_clamp(pb_total_frames, frame_number)
           log == IF pb_loop[t].pc = "callback"
                    THEN frame_callback(pb_calls, pb_loop[t].current_frame, FALSE)
                    ELSE pb_calls
       IN /\ pb_current_frame' = n
          /\ pb_calls' = frame_callback(log, n, TRUE)
  /\ pb_lock' = "seek_in_callback"
  /\ pb_loop' = [pb_loop EXCEPT ![t].pc = "cb_seek", ![t].current_frame = 0]
  /\ UNCHANGED <<rbvars, pvars, pb_fps, pb_state, pb_loop_enabled,
                 pb_total_frames, pb_play_thread, pb_stop_event,
                 pb_callback_set, pb_caller>>

\* The callback invoked by seek() returns; seek() releases the lock and
\* returns, the callback of the drive loop returns, and the loop sleeps.
PlayLoopNestedCallbackReturns(t) ==
  /\ pb_loop[t].pc = "cb_seek"
  /\ pb_lock' = "free"
  /\ pb_loop' = [pb_loop EXCEPT ![t].pc = "while", ![t].frame_time = None]
  /\ UNCHANGED <<rbvars, pvars, pb_fps, pb_state, pb_current_frame,
                 pb_loop_enabled, pb_total_frames, pb_play_thread,
                 pb_stop_event, pb_callback_set, pb_caller, pb_calls>>

\* The callback invoked by seek() calls a method that takes the lock
\* (seek, pause, stop, set_fps): it arrives at "with self._lock".
PlayLoopNestedCallbackCalls(t) ==
  /\ pb_loop[t].pc = "cb_seek"
  /\ pb_loop' = [pb_loop EXCEPT ![t].pc = "cb_wait_lock"]
  /\ UNCHANGED <<rbvars, pvars, pb_fps, pb_state, pb_current_frame,
                 pb_loop_enabled, pb_total_frames, pb_lock, pb_play_thread,
                 pb_stop_event, pb_callback_set, pb_caller, pb_calls>>

play_loop_reentrant(t) ==
  \/ play_loop(t)
  \/ PlayLoopCallbackCalls(t)
  \/ PlayLoopCallbackSeek(t)
  \/ PlayLoopNestedCallbackReturns(t)
  \/ PlayLoopNestedCallbackCalls(t)

\* The controller with a frame callback that calls back into it
ReenterNext ==
  \/ SetFrameCallback
  \/ SetTotalFrames
  \/ Play
  \/ \E t \in PlayThreads : play_loop_reentrant(t)

\* The controller, its caller and its drive-loop threads
PBNext ==
  \/ SetFrameCallback
  \/ ToggleLock
  \/ Play
  \/ Pause
  \/ Stop
  \/ StepForward
  \/ StepBackward
  \/ Seek
  \/ SetLoop
  \/ SetTotalFrames
  \/ \E t \in PlayThreads : play_loop(t)

\* ---- calls of the recording service whose return values are recorded
\* start_recording(name), lines 24-47, without a name or with one
RecStartBegin ==
  \E name \in {None} \cup {Some(n) : n \in RecNames} :
    start_recording_enter(name, TRUE)

RecStart ==
  \/ RecStartBegin
  \/ StartRecordingMkdir
  \/ StartRecordingCounter
  \/ StartRecordingFlag

\* record_frame(frame), lines 49-75, called by the thread that makes the
\* other calls, between two of them
RecFrame ==
  /\ client = "idle"
  /\ \E success \in BOOLEAN :
       LET out == record_frame(rec, disk, success) IN
         /\ success => rec.frame_counter < MaxWrites
         /\ rec' = out.rec
         /\ disk' = out.disk
         /\ RecReturns("record_frame", None, out.val)
  /\ UNCHANGED <<rbvars, pbvars, pipeline_rest, client>>

\* stop_recording(), lines 77-94
RecStopBegin == stop_recording_enter(TRUE)

RecStop ==
  \/ RecStopBegin
  \/ StopRecordingFlag
  \/ StopRecordingFolder
  \/ StopRecordingCounter

RecNext ==
  \/ RecStart
  \/ RecFrame
  \/ RecStop

\* The controller while its caller changes the playback speed
FpsNext ==
  \/ SetFrameCallback
  \/ SetFps
  \/ Play
  \/ Pause
  \/ \E t \in PlayThreads : play_loop(t)

\* ---- the pipeline and its owner
\* start() on a pipeline that has created no thread yet: the application
\* makes a new pipeline for each source it opens (main_window.py 395-424).
OwnerStart == Launched = 0 /\ start

Workers ==
  \/ \E t \in Threads : acquisition_loop(t)
  \/ \E t \in Threads : processing_loop(t)

PipelineNext ==
  \/ OwnerStart
  \/ stop
  \/ StartRecording
  \/ StopRecording
  \/ Workers

\* A ring buffer and a playback controller that nothing uses.
RBIdle ==
  /\ rb_capacity = 1
  /\ rb_buffer = RB_init
  /\ rb_added = <<>>

Init ==
  /\ PipelineInit
  /\ RBIdle
  /\ PBInit

\* The same initial state with a source that returns fewer frames.
InitFewFrames ==
  /\ PipelineInitFrames(FewFrames)
  /\ RBIdle
  /\ PBInit

InitOverlap ==
  /\ PipelineInitFrames(OverlapFrames)
  /\ RBIdle
  /\ PBInit

InitRace ==
  /\ PipelineInitFrames(RaceFrames)
  /\ RBIdle
  /\ PBInit

\* One session of a pipeline, with recordings started and stopped meanwhile
Next == PipelineNext

Spec == InitFewFrames /\ [][Next]_vars

\* A pipeline that is started and not stopped
RunningNext ==
  \/ OwnerStart
  \/ StartRecording
  \/ Workers

\* The same over a source with frames enough to fill the hand-off queue
SpecQueue == Init /\ [][RunningNext]_vars

\* start_recording() called before the pipeline is started
RecordingFirst == Launched = 0 /\ StartRecording

\* start() called again once the threads of the session before have ended
StartAfterExit == (Launched = 0 \/ WorkersDone) /\ start

\* A pipeline object that is started again after stop(), session after
\* session
RestartNext ==
  \/ StartAfterExit
  \/ stop
  \/ RecordingFirst
  \/ Workers

SpecRestart == InitFewFrames /\ [][RestartNext]_vars

\* A pipeline object whose start() and stop() are called at any time, also
\* while the threads of a session whose joins timed out are still running
OverlapNext ==
  \/ start
  \/ stop
  \/ RecordingFirst
  \/ Workers

SpecOverlap == InitOverlap /\ [][OverlapNext]_vars

\* One session of the pipeline over a data source whose read_frame() and
\* get_info() may raise, and with frames that the recording service cannot
\* convert
FaultNext ==
  \/ OwnerStart
  \/ StartRecording
  \/ Workers
  \/ \E t \in Threads : AcqReadRaises(t)
  \/ \E t \in Threads : AcqGetInfoRaises(t)
  \/ \E t \in Threads : ProcRecordRaises(t)

SpecFault == InitFewFrames /\ [][FaultNext]_vars

\* One session of the pipeline while another thread starts and stops
\* recordings
RecordingNext ==
  \/ OwnerStart
  \/ RecStart
  \/ RecStop
  \/ Workers

SpecRecording == InitRace /\ [][RecordingNext]_vars

\* One session of the pipeline with set_algorithm() calls
AlgNext ==
  \/ OwnerStart
  \/ SetAlgorithm
  \/ StartRecording
  \/ Workers

SpecAlg == InitFewFrames /\ [][AlgNext]_vars

\* The playback controller
SpecPB == Init /\ [][PBNext]_vars

\* The recording service on its own
SpecRec == Init /\ [][RecNext]_vars

\* The playback controller with a callback that calls back into it
SpecReenter == Init /\ [][ReenterNext]_vars

\* The playback controller with its speed changed during playback
SpecFps == Init /\ [][FpsNext]_vars

\* The same where every call that can go on does, and the drive-loop threads
\* are scheduled.
SpecPBFair ==
  /\ SpecPB
  /\ WF_vars(Play)
  /\ WF_vars(Pause)
  /\ \A t \in PlayThreads : WF_vars(play_loop(t))

\* ------------------------------------------- FrameRingBuffer as a machine
\* FrameRingBuffer(capacity) for a capacity C > 0
RBInit ==
  /\ rb_capacity \in 1..MaxCap
  /\ rb_buffer = RB_init
  /\ rb_added = <<>>
  /\ PipelineInit
  /\ PBInit

\* buffer.add(frame_data) for a frame with any frame number; the payload
\* identity is the ordinal of the add.
RBAdd ==
  /\ Len(rb_added) < MaxAdds
  /\ \E n \in 0..MaxFN :
       LET fd == FrameData(Len(rb_added), n, "src") IN
         /\ rb_buffer' = add(rb_buffer, rb_capacity, fd)
         /\ rb_added' = Append(rb_added, fd)
  /\ UNCHANGED <<rb_capacity, pvars, pbvars>>

\* buffer.clear()
RBClear ==
  /\ rb_buffer' = clear(rb_buffer)
  /\ rb_added' = <<>>
  /\ UNCHANGED <<rb_capacity, pvars, pbvars>>

RBNext == RBAdd \/ RBClear

SpecRB == RBInit /\ [][RBNext]_vars

\* ------------------------------------------------- FrameRingBuffer claims
\* The last n elements of a sequence, in order.
LastN(s, n) == SubSeq(s, Len(s) - n + 1, Len(s))

\* C6: the buffer holds exactly the last min(k, C) frames added since the
\* most recent clear, in insertion order; size never exceeds C; get(i) is the
\* i-th oldest for 0 <= i < size and none otherwise; get_latest() is the
\* newest or none when empty.
C6_Retention ==
  LET k == Len(rb_added)
      m == Min2(k, rb_capacity)
      kept == LastN(rb_added, m)
  IN /\ rb_buffer = kept
     /\ get_size(rb_buffer) = m
     /\ get_size(rb_buffer) <= rb_capacity
     /\ \A i \in -1..(MaxCap + 1) :
          get(rb_buffer, i) = IF 0 <= i /\ i < m THEN Some(kept[i + 1]) ELSE None
     /\ get_latest(rb_buffer) = IF k = 0 THEN None ELSE Some(rb_added[k])

\* More frames were added than the capacity, so the oldest were evicted.
C6_Witness ==
  /\ Len(rb_added) > rb_capacity + 1
  /\ Len(rb_buffer) = rb_capacity
  /\ rb_capacity >= 2

\* C7: get_by_frame_number(n) returns the most recently added retained frame
\* whose frame_number is n, and none when no retained frame has that number.
C7_Lookup ==
  \A n \in 0..(MaxFN + 1) :
    LET hits == {i \in 1..Len(rb_buffer) : rb_buffer[i].frame_number = n}
    IN IF hits = {} THEN get_by_frame_number(rb_buffer, n) = None
       ELSE \E i \in hits :
              /\ \A j \in hits : j <= i
              /\ get_by_frame_number(rb_buffer, n) = Some(rb_buffer[i])

\* Two retained frames share a number and a frame with a third number was
\* evicted.
C7_Witness ==
  /\ Len(rb_buffer) >= 2
  /\ \E i, j \in 1..Len(rb_buffer) :
       i < j /\ rb_buffer[i].frame_number = rb_buffer[j].frame_number
  /\ \E i \in 1..Len(rb_added) :
       \A j \in 1..Len(rb_buffer) :
         rb_buffer[j].frame_number # rb_added[i].frame_number

SetMin(S) == CHOOSE x \in S : \A y \in S : x <= y
SetMax(S) == CHOOSE x \in S : \A y \in S : x >= y

\* C8: frame_range() returns (minimum, maximum) of the retained frame
\* numbers, or (none, none) if the buffer is empty.
C8_RangeIsMinMax ==
  LET nums == {rb_buffer[i].frame_number : i \in 1..Len(rb_buffer)}
  IN get_frame_range(rb_buffer) =
       IF nums = {} THEN <<None, None>>
       ELSE <<Some(SetMin(nums)), Some(SetMax(nums))>>

\* --------------------------------------------- fairness (liveness claims)
\* The steps of the acquisition loop other than the source read.
AcqProgress(t) ==
  \/ AcqWhile(t)
  \/ AcqStamp(t)
  \/ AcqAdd(t)
  \/ AcqPut(t)
  \/ AcqIncLoad(t)
  \/ AcqIncStore(t)

\* A pipeline that is started and not stopped, recording from the start or
\* not at all
SteadyNext ==
  \/ OwnerStart
  \/ RecordingFirst
  \/ Workers

\* The acquisition thread is scheduled and the source keeps returning
\* frames; nothing is assumed of the processing thread, which may stay
\* inside a transform or a callback forever.
SpecAcqFair ==
  /\ Init /\ [][SteadyNext]_vars
  /\ \A t \in Threads : WF_vars(AcqProgress(t)) /\ SF_vars(AcqReadFrame(t))

\* stop() after its first step
StopProgress ==
  \/ StopJoinAcquisition
  \/ StopJoinAcquisitionTimeout
  \/ StopJoinProcessing
  \/ StopJoinProcessingTimeout
  \/ StopClose
  \/ StopRecordingIfActive
  \/ StopEndRecordingFlag
  \/ StopEndRecordingFolder
  \/ StopEndRecordingCounter

\* Both worker threads are scheduled, every source read, transform call and
\* callback returns, and a stop() that has begun goes on.
SpecFair ==
  /\ InitRace /\ [][Next]_vars
  /\ \A t \in Threads : WF_vars(acquisition_loop(t)) /\ WF_vars(processing_loop(t))
  /\ WF_vars(StopProgress)

\* ------------------------------------------------------- pipeline claims
\* C1: at every moment frames_processed <= frames_acquired.
C1_ProcessedLeAcquired == frames_processed <= frames_acquired

\* C2: every frame in the processed buffer carries the frame_number of a
\* frame appended to the source buffer earlier, and its payload is the output
\* of a transform applied to that source frame.
C2_ProcessedFromAcquired ==
  \A i \in 1..Len(processed_buffer) :
    \E j \in 1..Len(acq_log) :
      /\ acq_log[j].frame_data.frame_number = processed_buffer[i].frame_number
      /\ \E a \in Algorithms :
           processed_buffer[i].frame = process(a, acq_log[j].frame_data.frame)

\* The processed buffer is full after a transform fault, and the number
\* its oldest frame carries is not the count of frames processed before it.
C2_Witness ==
  /\ Len(processed_buffer) = BufCap
  /\ faults > 0
  /\ frames_processed = BufCap
  /\ processed_buffer[1].frame_number # frames_processed - Len(processed_buffer)

\* The frame numbers thread t stamped, in the order of their appends.
NumbersOf(t) ==
  LET mine == SelectSeq(acq_log, LAMBDA e : e.thread = t)
  IN [i \in 1..Len(mine) |-> mine[i].frame_data.frame_number]

\* C3: within a pipeline session (one start() to its stop(), the life of one
\* acquisition thread) the frame numbers begin at 0 and strictly increase.
C3_SessionNumbering ==
  \A t \in Threads :
    LET nums == NumbersOf(t)
    IN /\ Len(nums) > 0 => nums[1] = 0
       /\ \A i \in 1..(Len(nums) - 1) : nums[i] < nums[i + 1]

\* The payloads held by a sequence of source frames.
Payloads(q) == {q[i].frame : i \in 1..Len(q)}

\* What holds of the frames acquired while the queue was full.
DroppedStayOut ==
  \A j \in 1..Len(acq_log) :
    acq_log[j].put = "dropped" =>
      LET fd == acq_log[j].frame_data
          t == acq_log[j].thread
          in_cycle == /\ acq[t].pc \in {"inc_load", "inc_store"}
                      /\ acq[t].frame_data = Some(fd)
      IN /\ fd.frame \notin Payloads(processing_queue)
         /\ \A u \in Threads : proc[u].frame_data # Some(fd)
         /\ \A i \in 1..Len(processed_buffer) :
              \A a \in Algorithms :
                processed_buffer[i].frame # process(a, fd.frame)
         /\ in_cycle => get_latest(source_buffer) = Some(fd)
         /\ ~in_cycle => frames_acquired > fd.frame_number

\* C4: the queue never holds more than 10 items; a put on a full queue
\* leaves the queue and the source buffer as they are; a frame acquired
\* while the queue was full is the newest of the source buffer after the
\* put, is counted in frames_acquired once its cycle is over, is never in
\* the queue, never held by a processing thread and has no output in the
\* processed buffer.
C4_DropOnFull ==
  /\ [](Len(processing_queue) <= QueueMaxSize /\ DroppedStayOut)
  /\ [][\A t \in Threads :
          (/\ acq[t].pc = "put"
           /\ acq'[t].pc # "put"
           /\ Len(processing_queue) = QueueMaxSize)
          => /\ processing_queue' = processing_queue
             /\ source_buffer' = source_buffer
             /\ get_latest(source_buffer) = acq[t].frame_data]_vars

\* A frame was dropped, its cycle is over, and the processing thread has
\* since emptied the queue.
C4_Witness ==
  /\ \E j \in 1..Len(acq_log) : acq_log[j].put = "dropped"
  /\ frames_acquired = MaxFrames
  /\ processing_queue = <<>>
  /\ Len(processed_buffer) = BufCap

\* C5: while the pipeline is running and the source keeps returning frames,
\* frames_acquired keeps growing until the source has no more frames (or
\* the pipeline is stopped), whatever the processing thread does.
C5_AcquisitionGoesOn ==
  [](is_running => <>(~is_running \/ frames_acquired = MaxFrames))

\* All frames were acquired while the processing thread sat in its first
\* transform call: the queue is full and a frame was dropped.
C5_Witness ==
  /\ is_running
  /\ frames_acquired = MaxFrames
  /\ frames_processed = 0
  /\ \E t \in Threads : proc[t].pc = "process"
  /\ Len(processing_queue) = QueueMaxSize

\* The owner is inside stop(), past the lock.
InStop ==
  client \in {"stop_join_acq", "stop_join_proc", "stop_close", "stop_recording",
              "stop_end_rec_flag", "stop_end_rec_folder", "stop_end_rec_counter"}

\* C9: once stop() has cleared the flag, both loops exit and stop() returns;
\* is_running is false when stop() returns.
C9_StopTerminates ==
  /\ InStop ~> WorkersDone
  /\ InStop ~> ~InStop
  /\ [][InStop /\ ~InStop' => ~is_running']_vars

\* stop() has cleared the flag while both loops are in the middle of a cycle.
C9_Witness ==
  /\ client = "stop_join_acq"
  /\ \E t \in Threads : acq[t].pc = "put" /\ proc[t].pc = "wrap"

\* RecordingService: no session is active (is_recording_active() is False
\* and get_recording_folder() is None).
Idle(r) == ~r.is_recording /\ r.current_recording_folder = None

\* C10: when stop() on a running pipeline returns, the source is closed and
\* the recording service is Idle; stop() on a pipeline that is not running
\* returns at once, closing nothing and ending no session; stop() closes the
\* source once, after the joins.
C10_StopEffect ==
  /\ [][InStop /\ ~InStop' =>
          /\ source'.state = "closed"
          /\ Idle(rec')]_vars
  /\ [][client = "idle" /\ ~is_running /\ start_call' = start_call =>
          /\ ~InStop'
          /\ source'.state = source.state
          /\ source'.closes = source.closes
          /\ rec'.is_recording = rec.is_recording]_vars
  /\ [][source'.closes # source.closes /\ start_call' = start_call =>
          source'.closes = source.closes + 1 /\ client = "stop_close"]_vars

\* stop() is about to return from ending a recording session in which a
\* frame was written: the source has been closed, the flag and the folder of
\* the session are reset.
C10_Witness ==
  /\ client = "stop_end_rec_counter"
  /\ source.state = "closed"
  /\ source.closes = 1
  /\ Idle(rec)
  /\ rec.frame_counter > 0

\* ---------------------------------------------------------- start() claims
\* The step is a start() call.
StartCalled == start_call' # start_call

\* The start() call of the step had a call to the data source fail.
SourceRefused(method) ==
  \E i \in 1..Len(start_call'[1].calls) :
    start_call'[1].calls[i] = SourceCall(method, FALSE)

\* The step creates no worker thread.
NoLaunch ==
  /\ acq' = acq
  /\ proc' = proc
  /\ acquisition_thread' = acquisition_thread
  /\ processing_thread' = processing_thread

\* C11: a start() in which source.open() fails, or open() succeeds and
\* source.start() fails, returns failure, leaves is_running false and creates
\* no worker thread; when source.start() failed the source has been closed
\* again by the time start() returns.
C11_StartFailure ==
  [][StartCalled /\ (SourceRefused("open") \/ SourceRefused("start")) =>
       /\ start_call'[1].ret = FALSE
       /\ ~is_running'
       /\ NoLaunch
       /\ SourceRefused("open") => source' = source
       /\ SourceRefused("start") =>
            /\ source'.state = "closed"
            /\ source'.closes = source.closes + 1
            /\ start_call'[1].calls[Len(start_call'[1].calls)] =
                 SourceCall("close", TRUE)]_vars

\* After a session that was started and stopped, a start() has failed in
\* source.start() and closed the source once more.
C11_Witness ==
  /\ start_call # None
  /\ start_call[1].ret = FALSE
  /\ Len(start_call[1].calls) = 3
  /\ Launched = 1
  /\ source.closes = 2
  /\ ~is_running

\* C12: start() on a running pipeline returns success, calls no method of the
\* source and creates no worker thread.
C12_StartIdempotent ==
  [][StartCalled /\ is_running =>
       /\ start_call'[1].ret = TRUE
       /\ start_call'[1].calls = <<>>
       /\ source' = source
       /\ is_running'
       /\ NoLaunch]_vars

\* start() has returned on a pipeline whose loops are at work.
C12_Witness ==
  /\ start_call # None
  /\ start_call[1].ret = TRUE
  /\ start_call[1].calls = <<>>
  /\ is_running
  /\ \E t \in Threads : acq[t].pc = "inc_load" /\ proc[t].pc = "add"

\* -------------------------------------------------- processing-loop claims
\* C13: when the transform raises on a dequeued frame, the step leaves the
\* processed buffer, the recording service and frames_processed as they are,
\* the thread drops the frame and is back at the top of its loop; frames the
\* callback is given are frames of the processed buffer, and frames_processed
\* counts only frames that were appended to the processed buffer.
C13_TransformFault ==
  /\ [][\A t \in Threads :
          (proc[t].pc = "process" /\ faults' # faults) =>
            /\ processed_buffer' = processed_buffer
            /\ rec' = rec
            /\ frames_processed' = frames_processed
            /\ processing_queue' = processing_queue
            /\ proc'[t] = ProcIdleLocals("while")]_vars
  /\ [](\A t \in Threads :
          proc[t].pc \in {"callback", "cb_except"} =>
            get_latest(processed_buffer) = proc[t].processed_data)
  /\ [](frames_processed <= proc_log.appended)

\* The transform raised on frame 1; frames 0 and 2 were processed and
\* counted, and frame 2 is about to be given to the callback.
C13_Witness ==
  /\ faults = 1
  /\ frames_processed = 2
  /\ Len(processed_buffer) = 2
  /\ processed_buffer[1].frame_number = 0
  /\ processed_buffer[2].frame_number = 2
  /\ \E t \in Threads : proc[t].pc = "callback"

\* C14: an exception of the frame-ready callback is caught at the call: in
\* the handler the frame is the newest of the processed buffer and is counted,
\* the callback and the handler change neither the buffer nor the count, and
\* the thread goes on to the top of its loop.
C14_CallbackFault ==
  /\ [](\A t \in Threads :
          proc[t].pc = "cb_except" =>
            /\ get_latest(processed_buffer) = proc[t].processed_data
            /\ frames_processed >= 1
            /\ frames_processed = proc_log.callbacks)
  /\ [][\A t \in Threads :
          (proc[t].pc \in {"callback", "cb_except"} /\ proc'[t] # proc[t]) =>
            /\ processed_buffer' = processed_buffer
            /\ frames_processed' = frames_processed
            /\ \/ proc[t].pc = "callback" /\ proc'[t].pc = "cb_except"
               \/ proc'[t] = ProcIdleLocals("while")]_vars

\* The callback has raised on the second processed frame while the next
\* frame waits in the queue.
C14_Witness ==
  /\ \E t \in Threads : proc[t].pc = "cb_except"
  /\ frames_processed = 2
  /\ Len(processing_queue) > 0
  /\ is_running

\* C15: every frame is processed by the transform that was current when the
\* frame was taken from the hand-off queue, and is labelled with it.
C15_TransformAtDequeue ==
  \A t \in Threads :
    /\ proc[t].processed_frame # None =>
         proc[t].processed_frame[1].alg = proc[t].alg_at_get[1]
    /\ proc[t].processed_data # None =>
         proc[t].processed_data[1].source_info = proc[t].alg_at_get[1]

\* ------------------------------------------------ PlaybackController claims
\* The step is the return of a direct call of the named method.
Called(op) ==
  /\ pb_caller' # pb_caller
  /\ pb_caller'.pc = "idle"
  /\ pb_caller'.op = op

\* C16: while the state is PLAYING a drive-loop thread is alive.
C16_PlayingHasLoop ==
  pb_state = "playing" => \E t \in PlayThreads : PlayAlive(pb_loop[t])

\* C17: the state is STOPPED at first; play() leaves the state PLAYING and
\* changes nothing when it already was; pause() turns PLAYING into PAUSED and
\* leaves STOPPED and PAUSED; stop() leaves the state STOPPED.
C17_StateMachine ==
  /\ pb_state = "stopped"
  /\ [][/\ Called("play") =>
             /\ pb_state' = "playing"
             /\ pb_state = "playing" =>
                  UNCHANGED <<pb_current_frame, pb_stop_event, pb_play_thread,
                              pb_loop, pb_calls>>
        /\ Called("pause") =>
             pb_state' = IF pb_state = "playing" THEN "paused" ELSE pb_state
        /\ Called("stop") => pb_state' = "stopped"]_vars

\* play() has resumed a paused controller whose first drive loop had ended,
\* with a second drive-loop thread.
C17_Witness ==
  /\ pb_caller.op = "play"
  /\ pb_state = "playing"
  /\ pb_play_thread = 2
  /\ pb_loop[1].pc = "done"
  /\ pb_current_frame > 0

\* C18: stop() leaves the current frame 0 and the state STOPPED; until the
\* next call the current frame stays 0, and no step of a drive loop changes
\* the current frame while the state is STOPPED.
C18_StopResets ==
  /\ [][Called("stop") => pb_current_frame' = 0 /\ pb_state' = "stopped"]_vars
  /\ [](pb_caller.op = "stop" => pb_current_frame = 0 /\ pb_state = "stopped")
  /\ [][(pb_state = "stopped" /\ pb_loop' # pb_loop /\ pb_caller' = pb_caller) =>
          pb_current_frame' = pb_current_frame]_vars

\* stop() has returned while a drive loop that had advanced to frame 2 is
\* between its tick and its callback, and another tick is yet to come.
C18_Witness ==
  /\ pb_caller.op = "stop"
  /\ pb_caller.pc = "idle"
  /\ pb_current_frame = 0
  /\ \E t \in PlayThreads :
       pb_loop[t].pc = "callback" /\ pb_loop[t].current_frame = 2

\* C19: toggle_play_pause() returns, and has then turned PLAYING into PAUSED
\* and any other state into PLAYING.
C19_ToggleReturns ==
  /\ (pb_caller.pc = "toggle_call") ~> (pb_caller.pc = "idle")
  /\ [][Called("toggle_play_pause") =>
          pb_state' = IF pb_state = "playing" THEN "paused" ELSE "playing"]_vars

\* n clamped to the frames there are.
Clamped(total_frames, n) ==
  IF n < 0 THEN 0
  ELSE IF total_frames # None /\ n > total_frames[1] - 1 THEN total_frames[1] - 1
  ELSE n

\* C20: seek(n) in any state leaves the current frame n clamped to
\* [0, total-1], or max(0, n) when the total is not known, and has given
\* that value to the frame callback once.
C20_Seek ==
  [][Called("seek") =>
       LET v == Clamped(pb_total_frames, pb_caller'.arg) IN
         /\ pb_current_frame' = v
         /\ pb_state' = pb_state
         /\ IF pb_callback_set
              THEN /\ pb_calls'.last # None
                   /\ pb_calls'.last[1].frame = v
                   /\ pb_calls'.n = (pb_calls.n + 1) % CallsMod
              ELSE pb_calls' = pb_calls]_vars

\* seek() beyond the last frame while PLAYING: the current frame is the last
\* frame and the callback was given it.
C20_Witness ==
  /\ pb_caller.op = "seek"
  /\ pb_caller.arg = MaxPos + 1
  /\ pb_total_frames = Some(2)
  /\ pb_current_frame = 1
  /\ pb_state = "playing"
  /\ pb_calls.last = Some([frame |-> 1, locked |-> TRUE])

\* C21: step_forward() adds 1 to the current frame, except at index total-1
\* (total known) where it leaves it; step_backward() subtracts 1, except at
\* 0 where it leaves it; with the total unknown step_forward() always adds 1.
C21_Step ==
  [][/\ Called("step_forward") =>
          pb_current_frame' =
            IF pb_total_frames # None /\ pb_current_frame = pb_total_frames[1] - 1
              THEN pb_current_frame
              ELSE pb_current_frame + 1
     /\ Called("step_backward") =>
          pb_current_frame' =
            IF pb_current_frame = 0 THEN 0 ELSE pb_current_frame - 1]_vars

\* C22: every step_forward() and step_backward(), in any state, has given
\* the resulting current frame to the frame callback once.
C22_StepCallback ==
  [][(Called("step_forward") \/ Called("step_backward")) /\ pb_callback_set =>
       /\ pb_calls'.last # None
       /\ pb_calls'.last[1].frame = pb_current_frame'
       /\ pb_calls'.n = (pb_calls.n + 1) % CallsMod]_vars

\* The step is a tick of drive loop t made in state PLAYING at the last
\* index of a known range.
TickAtLast(t) ==
  /\ pb_loop[t].pc = "tick"
  /\ pb_loop'[t] # pb_loop[t]
  /\ pb_state = "playing"
  /\ pb_total_frames # None
  /\ pb_current_frame = pb_total_frames[1] - 1

\* C23: with looping on, a tick at the last index wraps to 0: the current
\* frame and the frame number the tick hands to the callback are 0, and the
\* state stays PLAYING.
C23_LoopWraps ==
  [][\A t \in PlayThreads :
       TickAtLast(t) /\ pb_loop_enabled =>
         /\ pb_current_frame' = 0
         /\ pb_loop'[t].pc = "callback"
         /\ pb_loop'[t].current_frame = 0
         /\ pb_state' = "playing"]_vars

\* C24: with looping off, a tick at the last index sets the state to PAUSED,
\* leaves the current frame, and the drive loop goes to its exit, from where
\* it invokes no callback.
C24_EndOfRange ==
  [][\A t \in PlayThreads :
       /\ TickAtLast(t) /\ ~pb_loop_enabled =>
            /\ pb_state' = "paused"
            /\ pb_current_frame' = pb_current_frame
            /\ pb_calls' = pb_calls
            /\ pb_loop'[t].pc = "return"
       /\ pb_loop[t].pc = "return" /\ pb_loop'[t] # pb_loop[t] =>
            /\ pb_loop'[t].pc = "done"
            /\ pb_calls' = pb_calls]_vars

\* The drive loop has paused the controller at the last frame of a range of
\* two and is leaving; no pause() or stop() was called since play().
C24_Witness ==
  /\ pb_state = "paused"
  /\ ~pb_stop_event
  /\ ~pb_loop_enabled
  /\ pb_total_frames = Some(2)
  /\ pb_current_frame = 1
  /\ \E t \in PlayThreads : pb_loop[t].pc = "return"

\* C26: a drive loop that has invoked the frame callback is still running
\* afterwards and goes on to its next iteration, whether or not the callback
\* raised.
C26_CallbackFaultCaught ==
  [][\A t \in PlayThreads :
       pb_loop[t].pc = "callback" /\ pb_loop'[t] # pb_loop[t] =>
         pb_loop'[t].pc = "while"]_vars

\* v clamped to the range of playback speeds
ClampedFps(v) == IF v < 1 THEN 1 ELSE IF v > 120 THEN 120 ELSE v

\* C25: set_fps(v) stores v clamped to [1, 120]; nothing else changes the
\* stored fps; and every tick that advances the frame computes its interval
\* from the fps stored at that moment, which is the one the last set_fps()
\* left.
C25_Fps ==
  [][/\ Called("set_fps") => pb_fps' = ClampedFps(pb_caller'.arg)
     /\ pb_fps' # pb_fps => Called("set_fps")
     /\ \A t \in PlayThreads :
          pb_loop[t].pc = "tick" /\ pb_loop'[t].pc = "callback" =>
            pb_loop'[t].frame_time = <<1, pb_fps>>]_vars

\* set_fps(121) was called after the drive loop had made a tick, and the
\* tick now in progress has an interval of 1/120.
C25_Witness ==
  /\ pb_caller.op = "set_fps"
  /\ pb_caller.arg = 121
  /\ pb_fps = 120
  /\ pb_calls.n = 1
  /\ \E t \in PlayThreads :
       pb_loop[t].pc = "callback" /\ pb_loop[t].frame_time = <<1, 120>>

\* ------------------------------------------------ RecordingService claims
\* The step is the one of a direct call of the named method in which the
\* value the call returns is fixed.
RecCalled(op) == rec_call' # rec_call /\ rec_call'.op = op

\* The step is the return of a direct call.
RecReturned == client' = "idle"

\* C27: start_recording(name) during a session returns the path of that
\* session and leaves the counter, the session directory, the flag and the
\* files alone, with or without a name.
C27_StartWhileActive ==
  [][RecCalled("start_recording") /\ rec.is_recording =>
       /\ RecReturned
       /\ rec_call'.ret = rec.current_recording_folder[1]
       /\ rec' = rec
       /\ disk' = disk]_vars

\* start_recording() without a name has returned during session "rec1",
\* which has one frame: it returned "rec1" and the counter is still 1.
C27_Witness ==
  /\ rec_call.op = "start_recording"
  /\ rec_call.arg = None
  /\ rec_call.ret = "rec1"
  /\ rec = [is_recording |-> TRUE, current_recording_folder |-> Some("rec1"),
            frame_counter |-> 1]
  /\ disk["rec1"] = Some({0})

\* C28: during a session the session directory holds exactly the files
\* 0..N-1, N being the counter; a successful record_frame adds 1 to the
\* counter and a failed one changes nothing, the session staying active;
\* stop_recording() returns (session path, N) and leaves the service idle.
C28_Session ==
  /\ [](rec.is_recording =>
          disk[rec.current_recording_folder[1]] = Some(0..(rec.frame_counter - 1)))
  /\ [][RecCalled("record_frame") /\ rec.is_recording =>
          IF rec_call'.ret
            THEN rec' = [rec EXCEPT !.frame_counter = @ + 1]
            ELSE rec' = rec /\ disk' = disk]_vars
  /\ [][RecCalled("stop_recording") /\ rec.is_recording =>
          rec_call'.ret = <<rec.current_recording_folder[1], rec.frame_counter>>]_vars
  /\ [][client = "stop_rec_counter" /\ RecReturned => Idle(rec')]_vars

\* C29: record_frame() on an idle service returns failure and
\* stop_recording() returns ("", 0); neither changes the service or a file.
C29_Idle ==
  [][client = "idle" /\ Idle(rec) =>
       /\ RecCalled("record_frame") =>
            RecReturned /\ rec_call'.ret = FALSE /\ rec' = rec /\ disk' = disk
       /\ RecCalled("stop_recording") =>
            RecReturned /\ rec_call'.ret = <<"", 0>> /\ rec' = rec /\ disk' = disk]_vars

\* record_frame() has returned failure on a service that is idle after a
\* session of one frame, and the file is as it was.
C29_Witness ==
  /\ rec_call.op = "record_frame"
  /\ rec_call.ret = FALSE
  /\ rec = [is_recording |-> FALSE, current_recording_folder |-> None,
            frame_counter |-> 0]
  /\ disk = [n \in AllNames |-> IF n = "rec1" THEN Some({0}) ELSE None]

\* C30: when a start_recording() called on an idle service returns, the
\* session is active, its directory has no frame file in it and the counter
\* is 0.
C30_FreshDirectory ==
  [][client = "start_rec_flag" /\ RecReturned =>
       /\ rec'.is_recording
       /\ rec'.frame_counter = 0
       /\ disk'[rec'.current_recording_folder[1]] = Some({})]_vars

\* ------------------------------------------------------- concurrency claims
\* C31: no lock is held across a call into another component or into a
\* callback: start() does not call the source under the pipeline lock, and
\* no invocation of the frame callback, by the drive loop or by seek(),
\* step_forward() or step_backward(), is made with the controller lock held.
C31_NoLockAcrossCalls ==
  /\ start_call # None =>
       \A i \in 1..Len(start_call[1].calls) : ~start_call[1].calls[i].under_lock
  /\ pb_calls.last # None => ~pb_calls.last[1].locked

\* C38: whenever the total is known the current frame is within
\* [0, total-1].
C38_FrameInRange ==
  pb_total_frames # None =>
    0 <= pb_current_frame /\ pb_current_frame <= pb_total_frames[1] - 1

\* C39: from the return of a pause() or stop() that took effect until the
\* next play() (the time the stop event is set), no drive loop invokes the
\* frame callback.
C39_NoCallbackAfterPause ==
  [][\A t \in PlayThreads :
       /\ pb_loop[t].pc = "callback"
       /\ pb_loop'[t] # pb_loop[t]
       /\ pb_callback_set
       => ~pb_stop_event]_vars

\* C40: at most one drive-loop thread is alive.
C40_OneDriveLoop ==
  Cardinality({t \in PlayThreads : PlayAlive(pb_loop[t])}) <= 1

\* The first drive loop has ended and a second one, started by a later
\* play(), is running.
C40_Witness ==
  /\ pb_state = "playing"
  /\ pb_loop[1].pc = "done"
  /\ PlayAlive(pb_loop[2])

\* C32: the frame callback invoked by the drive loop can call back into the
\* controller (seek, pause, stop, set_fps) and return: its thread never
\* waits for the controller lock while holding that lock.
C32_CallbackReentry ==
  \A t \in PlayThreads :
    ~(pb_loop[t].pc = "cb_wait_lock" /\ pb_lock = "seek_in_callback")

\* C35: at most one acquisition loop and at most one processing loop are
\* running at any time.
C35_OneLoopEach ==
  /\ Cardinality({t \in Threads : Alive(acq[t])}) <= 1
  /\ Cardinality({t \in Threads : Alive(proc[t])}) <= 1

\* C33: a fault inside an acquisition cycle or a processing cycle does not
\* end its loop: while is_running is true, both worker threads are alive.
C33_LoopsContained ==
  is_running =>
    /\ Alive(acq[acquisition_thread])
    /\ Alive(proc[processing_thread])

BetweenCycles(t) == proc[t].pc \in {"while", "get"}

\* C37: whenever the processing loop is between cycles, frames_processed
\* equals the number of frames appended to the processed buffer so far, and
\* the frame-ready callback was reached once for each of them, also when
\* the recording service fails or raises on a frame.
C37_CountsAgree ==
  (processing_thread # 0 /\ BetweenCycles(processing_thread)) =>
    /\ frames_processed = proc_log.appended
    /\ proc_log.callbacks = proc_log.appended

\* The files of every session directory are indexed 0..k-1.
NoGap ==
  \A n \in AllNames :
    disk[n] # None => \E k \in 0..MaxWrites : disk[n][1] = 0..(k - 1)

\* C36: with the processing loop recording while another thread calls
\* start_recording() and stop_recording(), every session directory holds
\* the files 0..k-1 for some k, and the count stop_recording() returned for
\* a session is the number of files of that session's directory.
C36_RecordingRace ==
  /\ NoGap
  /\ (rec_call.op = "stop_recording" /\ rec_call.ret[1] # "") =>
       rec_call.ret[2] = Cardinality(disk[rec_call.ret[1]][1])

Ids(q) == {q[i].id : i \in 1..Len(q)}

\* C34: the frame record appended to the source buffer is not the object
\* put on the hand-off queue nor the one handed to the frame-ready callback,
\* and the record appended to the processed buffer is not the one handed to
\* the callback.
C34_NoAlias ==
  /\ Ids(source_buffer) \cap Ids(processing_queue) = {}
  /\ \A t \in Threads :
       proc[t].pc = "callback" =>
         /\ proc[t].frame_data[1].id \notin Ids(source_buffer)
         /\ proc[t].processed_data[1].id \notin Ids(processed_buffer)

====
